---------------------------- MODULE Spec2Model ----------------------------
(***************************************************************************)
(* A model of the typanion validation engine: values live in a heap of     *)
(* objects, validators are syntax trees interpreted by Run, coercion       *)
(* entries are closures over (container, key) slots.                       *)
(***************************************************************************)
EXTENDS Integers, Sequences, FiniteSets, TLC

(***************************************************************************)
(* JavaScript values.  Every value is a record of the same shape so that   *)
(* strict equality (===) is record equality: primitives compare by value,  *)
(* objects by heap address.                                                *)
(***************************************************************************)
Undef == [t |-> "undef", s |-> "", n |-> 0]
Null == [t |-> "null", s |-> "", n |-> 0]
Str(s) == [t |-> "str", s |-> s, n |-> 0]
Num(n) == [t |-> "num", s |-> "", n |-> n]
Bool(b) == [t |-> "bool", s |-> "", n |-> IF b THEN 1 ELSE 0]
(* a number with a fractional part: n is its integer part and s the digits *)
(* written after it, as in 42.42                                           *)
Frac(n, s) == [t |-> "num", s |-> s, n |-> n]
(* a Date: n is its time value in milliseconds, s is "Invalid Date" for a  *)
(* date without a time value                                               *)
DateOf(n) == [t |-> "date", s |-> "", n |-> n]
InvalidDate == [t |-> "date", s |-> "Invalid Date", n |-> 0]
Ref(a) == [t |-> "ref", s |-> "", n |-> a]

(* A heap object: arrays and sets keep their elements in vals; plain        *)
(* objects keep Object.keys order in keys and the values in vals.  fwd is   *)
(* the address the accessor properties of an `extra` bag write to (0 when  *)
(* the properties are plain data properties).                              *)
ArrayObj(vals) == [k |-> "array", keys |-> <<>>, vals |-> vals, fwd |-> 0]
PlainObj(keys, vals) == [k |-> "object", keys |-> keys, vals |-> vals, fwd |-> 0]
SetObj(vals) == [k |-> "set", keys |-> <<>>, vals |-> vals, fwd |-> 0]
(* a Map keeps its entries in vals in insertion order, each as its key     *)
(* followed by its value; it has no own properties                         *)
MapObj(flat) == [k |-> "map", keys |-> <<>>, vals |-> flat, fwd |-> 0]
Box(v) == PlainObj(<<"value">>, <<v>>)

IsArray(heap, v) == v.t = "ref" /\ heap[v.n].k = "array"
IsSetObj(heap, v) == v.t = "ref" /\ heap[v.n].k = "set"
IsMapObj(heap, v) == v.t = "ref" /\ heap[v.n].k = "map"

IndexOf(seq, x) == IF \E i \in 1..Len(seq) : seq[i] = x
                   THEN CHOOSE i \in 1..Len(seq) : seq[i] = x
                   ELSE 0

(* an array index given as a property name ("0") is the index itself *)
NormKey(o, key) ==
  IF o.k = "array" /\ key.t = "str" /\ (\E i \in 0..(Len(o.vals) - 1) : ToString(i) = key.s)
  THEN Num(CHOOSE i \in 0..(Len(o.vals) - 1) : ToString(i) = key.s)
  ELSE key

(* target[key] *)
GetProp(heap, a, key0) ==
  LET o == heap[a]
      key == NormKey(o, key0) IN
  IF o.k = "array"
  THEN IF key.t = "num" /\ key.n >= 0 /\ key.n < Len(o.vals) THEN o.vals[key.n + 1] ELSE Undef
  ELSE IF key.t = "str" /\ IndexOf(o.keys, key.s) # 0 THEN o.vals[IndexOf(o.keys, key.s)] ELSE Undef

(* target[key] = v on a data property *)
PutData(heap, a, key0, v) ==
  LET o == heap[a]
      key == NormKey(o, key0) IN
  IF o.k = "array"
  THEN IF key.t = "num" /\ key.n >= 0 /\ key.n < Len(o.vals)
       THEN [heap EXCEPT ![a].vals[key.n + 1] = v]
       ELSE heap
  ELSE IF IndexOf(o.keys, key.s) # 0
       THEN [heap EXCEPT ![a].vals[IndexOf(o.keys, key.s)] = v]
       ELSE [heap EXCEPT ![a].keys = Append(@, key.s), ![a].vals = Append(@, v)]

(* target[key] = v; on an `extra` bag the setter made by makeSetter writes  *)
(* the original object and the getter keeps returning the captured value.   *)
makeSetter(heap, a, key, v) == PutData(heap, a, key, v)

SetProp(heap, a, key, v) ==
  IF heap[a].fwd # 0 /\ key.t = "str" /\ IndexOf(heap[a].keys, key.s) # 0
  THEN makeSetter(heap, heap[a].fwd, key, v)
  ELSE PutData(heap, a, key, v)


Alloc(heap, obj) == [heap |-> Append(heap, obj), ref |-> Ref(Len(heap) + 1)]

(***************************************************************************)
(* Structural (deep) values: what an input literal denotes and what        *)
(* deep-equal compares.  Primitives are the values above; containers are   *)
(* arr / obj / set records.                                                *)
(***************************************************************************)
TArr(items) == [t |-> "arr", items |-> items]
TObj(keys, items) == [t |-> "obj", keys |-> keys, items |-> items]
TSet(items) == [t |-> "set", items |-> items]
TMap(items) == [t |-> "map", items |-> items]

RECURSIVE Deep(_, _)
Deep(heap, v) ==
  IF v.t # "ref" THEN v
  ELSE LET o == heap[v.n]
           items == [i \in 1..Len(o.vals) |-> Deep(heap, o.vals[i])]
       IN CASE o.k = "array" -> TArr(items)
            [] o.k = "set" -> TSet(items)
            [] o.k = "map" -> TMap(items)
            [] OTHER -> TObj(o.keys, items)

RECURSIVE AllocT(_, _)
RECURSIVE AllocSeq(_, _, _)
(* allocates the items of a literal left to right; result: heap and values *)
AllocSeq(heap, tpls, acc) ==
  IF Len(acc) = Len(tpls) THEN [heap |-> heap, vals |-> acc]
  ELSE LET r == AllocT(heap, tpls[Len(acc) + 1])
       IN AllocSeq(r.heap, tpls, Append(acc, r.ref))

AllocT(heap, tpl) ==
  IF tpl.t \notin {"arr", "obj", "set", "map"} THEN [heap |-> heap, ref |-> tpl]
  ELSE LET r == AllocSeq(heap, tpl.items, <<>>)
       IN CASE tpl.t = "arr" -> Alloc(r.heap, ArrayObj(r.vals))
            [] tpl.t = "set" -> Alloc(r.heap, SetObj(r.vals))
            [] tpl.t = "map" -> Alloc(r.heap, MapObj(r.vals))
            [] OTHER -> Alloc(r.heap, PlainObj(tpl.keys, r.vals))

(* const name = value; ...body: the value is computed once and named *)
Let(value, Body(_)) == Body(value)

(***************************************************************************)
(* Coercion closures.                                                      *)
(***************************************************************************)
NoGen == [g |-> "none", a |-> 0, b |-> 0, value |-> Undef]
Unbound == [bound |-> FALSE, tgt |-> 0, key |-> Undef]
(* the CoercionFn returned by makeCoercionFn(target, key) *)
CoercionFnOf(tgt, key) == [bound |-> TRUE, tgt |-> tgt, key |-> key]
(* fn.bind(null, v) *)
Bind(fn, v) == [c |-> "bind", tgt |-> fn.tgt, key |-> fn.key, v |-> v, orig |-> Undef, gen |-> NoGen]

(* the returned closure bound to the value just written *)
makeCoercionFnBindsNew(heap, tgt, key, v) ==
  [heap |-> SetProp(heap, tgt, key, v),
   ret |-> Bind(CoercionFnOf(tgt, key), v)]

(* the slot written with what it already held *)
makeCoercionFnWritesPrevious(heap, tgt, key, v) ==
  LET previous == GetProp(heap, tgt, key)
  IN [heap |-> SetProp(heap, tgt, key, previous),
      ret |-> Bind(CoercionFnOf(tgt, key), previous)]

(* One call of the closure built by makeCoercionFn(target, key) with v.     *)
makeCoercionFn(heap, tgt, key, v) ==
  LET previous == GetProp(heap, tgt, key)
  IN [heap |-> SetProp(heap, tgt, key, v),
      ret |-> Bind(CoercionFnOf(tgt, key), previous)]

RECURSIVE Dedup(_, _)
Dedup(seq, acc) ==
  IF seq = <<>> THEN acc
  ELSE Dedup(Tail(seq), IF IndexOf(acc, Head(seq)) # 0 THEN acc ELSE Append(acc, Head(seq)))

(* the elements `new Set(x)` iterates over *)
IterableItems(heap, v) ==
  IF v.t = "ref" /\ heap[v.n].k \in {"array", "set"} THEN heap[v.n].vals ELSE <<>>

RECURSIVE MapSet(_, _, _, _)
(* map.set(key, value) on the entries of a Map: a key already present      *)
(* keeps its place and takes the new value                                 *)
MapSet(flat, i, key, v) ==
  IF i > Len(flat) THEN flat \o <<key, v>>
  ELSE IF flat[i] = key THEN [flat EXCEPT ![i + 1] = v]
  ELSE MapSet(flat, i + 2, key, v)

RECURSIVE MapOfPairs(_, _, _, _)
(* new Map(pairs) for an array of [key, value] arrays *)
MapOfPairs(heap, pairs, i, flat) ==
  IF i > Len(pairs) THEN flat
  ELSE MapOfPairs(heap, pairs, i + 1,
                  MapSet(flat, 1, GetProp(heap, pairs[i].n, Num(0)), GetProp(heap, pairs[i].n, Num(1))))

RECURSIVE PairsFlat(_, _, _, _)
(* the keys and values of an array of [key, value] arrays, in order *)
PairsFlat(heap, pairs, i, flat) ==
  IF i > Len(pairs) THEN flat
  ELSE PairsFlat(heap, pairs, i + 1,
                 flat \o <<GetProp(heap, pairs[i].n, Num(0)), GetProp(heap, pairs[i].n, Num(1))>>)

RECURSIVE AllocPairs(_, _, _, _)
(* [...map]: a new array holding a new [key, value] array per entry *)
AllocPairs(heap, flat, i, acc) ==
  IF i > Len(flat) THEN [heap |-> Append(heap, ArrayObj(acc)), ref |-> Ref(Len(heap) + 1)]
  ELSE AllocPairs(Append(heap, ArrayObj(<<flat[i], flat[i + 1]>>)), flat, i + 2,
                  Append(acc, Ref(Len(heap) + 1)))

(* Object.entries(x) as the keys and values of a Map: the own properties   *)
(* of an object, the characters of a string (the strings that reach it are *)
(* one character long), nothing for a number or a boolean                  *)
ObjectEntries(heap, x) ==
  IF x.t = "ref"
  THEN (IF heap[x.n].k = "array"
        THEN [j \in 1..(2 * Len(heap[x.n].vals)) |->
                IF j % 2 = 1 THEN Str(ToString(((j + 1) \div 2) - 1)) ELSE heap[x.n].vals[j \div 2]]
        ELSE IF heap[x.n].k = "object"
        THEN [j \in 1..(2 * Len(heap[x.n].keys)) |->
                IF j % 2 = 1 THEN Str(heap[x.n].keys[(j + 1) \div 2]) ELSE heap[x.n].vals[j \div 2]]
        ELSE <<>>)
  ELSE IF x.t = "str" /\ x.s # "" THEN <<Str("0"), x>>
  ELSE <<>>

(* the generator argument of makeLazyCoercionFn, run at commit time *)
Generate(heap, gen) ==
  CASE gen.g = "newSet" ->
         Alloc(heap, SetObj(Dedup(IterableItems(heap, GetProp(heap, gen.a, Str("value"))), <<>>)))
    [] gen.g = "updateSet" ->
         IF heap[gen.a].vals # heap[gen.b].vals
         THEN Alloc(heap, SetObj(Dedup(heap[gen.a].vals, <<>>)))
         ELSE [heap |-> heap, ref |-> gen.value]
    [] gen.g = "newMapOfPairs" ->
         Alloc(heap, MapObj(MapOfPairs(heap, IterableItems(heap, GetProp(heap, gen.a, Str("value"))),
                                       1, <<>>)))
    [] gen.g = "newMapOfEntries" ->
         Alloc(heap, MapObj(ObjectEntries(heap, GetProp(heap, gen.a, Str("value")))))
    [] gen.g = "updateMap" ->
         IF PairsFlat(heap, heap[gen.a].vals, 1, <<>>) # PairsFlat(heap, heap[gen.b].vals, 1, <<>>)
         THEN Alloc(heap, MapObj(MapOfPairs(heap, heap[gen.a].vals, 1, <<>>)))
         ELSE [heap |-> heap, ref |-> gen.value]
    [] OTHER -> [heap |-> heap, ref |-> Undef]

(* the commit closure returned by makeLazyCoercionFn(fn, orig, generator) *)
makeLazyCoercionFn(fn, orig, gen) ==
  [c |-> "commit", tgt |-> fn.tgt, key |-> fn.key, v |-> Undef, orig |-> orig, gen |-> gen]

(* Invoking a BoundCoercionFn: the new heap and the closure it returns.     *)
Invoke(heap, cl) ==
  CASE cl.c = "bind" -> makeCoercionFn(heap, cl.tgt, cl.key, cl.v)
    [] cl.c = "commit" ->
         LET g == Generate(heap, cl.gen)
         IN [heap |-> makeCoercionFn(g.heap, cl.tgt, cl.key, g.ref).heap,
             ret |-> [cl EXCEPT !.c = "revert"]]
    [] OTHER ->
         [heap |-> makeCoercionFn(heap, cl.tgt, cl.key, cl.orig).heap,
          ret |-> [cl EXCEPT !.c = "commit"]]


(* Object.keys(value) *)
ObjectKeys(heap, a) ==
  LET o == heap[a] IN
  CASE o.k = "array" -> [i \in 1..Len(o.vals) |-> ToString(i - 1)]
    [] o.k \in {"set", "map"} -> <<>>
    [] OTHER -> o.keys

(***************************************************************************)
(* Text conversions.  Strings are atomic in the model, so parsing and      *)
(* splitting are tables over the strings the inputs are built from; any    *)
(* other string is not JSON and contains no delimiter.                     *)
(***************************************************************************)
JsonTexts == {"0", "1", "7", "42", "42.42", "1e2", "true", "false", "null", "\"a\"", "\"b\"", "\"true\""}
JsonParseOk(s) == s \in JsonTexts
JsonParse(s) ==
  CASE s = "0" -> Num(0) [] s = "1" -> Num(1) [] s = "7" -> Num(7) [] s = "42" -> Num(42)
    [] s = "1e2" -> Num(100) [] s = "42.42" -> Frac(42, ".42")
    [] s = "true" -> Bool(TRUE) [] s = "false" -> Bool(FALSE) [] s = "null" -> Null
    [] s = "\"a\"" -> Str("a") [] s = "\"b\"" -> Str("b") [] s = "\"true\"" -> Str("true")
    [] OTHER -> Undef

(* value.split(delimiter) for the delimiter "," *)
Split(s) ==
  CASE s = "true,false" -> <<"true", "false">>
    [] s = "true,foo" -> <<"true", "foo">>
    [] s = "1,7" -> <<"1", "7">>
    [] OTHER -> <<s>>

(* simpleKeyRegExp.test(key): the keys of the model that are not identifiers *)
NonSimpleKeys == {"\"a\"", "\"b\"", "foo bar", "0", "1", "2", "42"}
simpleKeyRegExp(key) == key \notin NonSimpleKeys

RECURSIVE JsonStringify(_, _)
RECURSIVE JsonJoin(_, _, _, _)
(* the members of an object or array literal, comma separated *)
JsonJoin(heap, o, i, acc) ==
  IF i > Len(o.vals) THEN acc
  ELSE LET v == o.vals[i]
           txt == IF o.k = "array"
                  THEN (IF v.t = "undef" THEN "null" ELSE JsonStringify(heap, v))
                  ELSE ToString(o.keys[i]) \o ":" \o JsonStringify(heap, v)
           skip == o.k # "array" /\ v.t = "undef"
       IN JsonJoin(heap, o, i + 1,
                   IF skip THEN acc ELSE IF acc = "" THEN txt ELSE acc \o "," \o txt)

JsonStringify(heap, v) ==
  CASE v.t = "str" -> ToString(v.s)
    [] v.t = "num" -> ToString(v.n) \o v.s
    [] v.t = "bool" -> (IF v.n = 1 THEN "true" ELSE "false")
    [] v.t = "null" -> "null"
    [] v.t = "undef" -> "undefined"
    [] OTHER -> LET o == heap[v.n] IN
                CASE o.k = "array" -> "[" \o JsonJoin(heap, o, 1, "") \o "]"
                  [] o.k \in {"set", "map"} -> "{}"
                  [] OTHER -> "{" \o JsonJoin(heap, o, 1, "") \o "}"

getPrintable(heap, v) ==
  CASE v.t = "null" -> "null"
    [] v.t = "undef" -> "undefined"
    [] v = Str("") -> "an empty string"
    [] IsArray(heap, v) -> "an array"
    [] OTHER -> JsonStringify(heap, v)

(***************************************************************************)
(* Validation state and the world a validator call runs in.                *)
(*   st: p ("" when absent), errorsOn / coercionsOn (is the list present), *)
(*       coercion (the binder of the current slot, or Unbound)             *)
(*   w:  heap, errs (the list st.errors points to), coes (the list         *)
(*       st.coercions points to), log (observations of the run)            *)
(* A call returns [ok, exc, w]; exc is TRUE when the call threw.           *)
(***************************************************************************)
NoPath == ""
PathOr(p, dflt) == IF p = NoPath THEN dflt ELSE p

R(ok, w) == [ok |-> ok, exc |-> FALSE, w |-> w]
Throw(w) == [ok |-> FALSE, exc |-> TRUE, w |-> w]

(* the internal error is also noted in the log, sink or not *)
Noted(st, w, message) ==
  IF message = "Unbound coercion result"
  THEN [w EXCEPT !.log = Append(@, [e |-> "unbound", st |-> st])]
  ELSE w

pushError(st, w, message) ==
  R(FALSE, IF st.errorsOn
           THEN [Noted(st, w, message) EXCEPT !.errs = Append(@, PathOr(st.p, ".") \o ": " \o message)]
           ELSE Noted(st, w, message))

(* state.coercions.push([state.p ?? `.`, fn]) *)
PushCoercion(st, w, cl) == [w EXCEPT !.coes = Append(@, [p |-> PathOr(st.p, "."), fn |-> cl])]

(* the parent path defaulting to `.` for every kind of key *)
computeKeyDottedRoot(st, key) ==
  IF key.t = "num" THEN PathOr(st.p, ".") \o "[" \o ToString(key.n) \o "]"
  ELSE IF simpleKeyRegExp(key.s) THEN PathOr(st.p, ".") \o "." \o key.s
  ELSE PathOr(st.p, ".") \o "[" \o ToString(key.s) \o "]"

computeKey(st, key) ==
  IF key.t = "num" THEN PathOr(st.p, ".") \o "[" \o ToString(key.n) \o "]"
  ELSE IF simpleKeyRegExp(key.s) THEN PathOr(st.p, "") \o "." \o key.s
  ELSE PathOr(st.p, ".") \o "[" \o ToString(key.s) \o "]"

(***************************************************************************)
(* Validators are syntax trees; Run interprets them.                       *)
(***************************************************************************)
NoSpec == [v |-> "none"]
V_isUnknown == [v |-> "isUnknown"]
V_isString == [v |-> "isString"]
V_isLiteral(expected) == [v |-> "isLiteral", expected |-> expected]
V_isBoolean == [v |-> "isBoolean"]
V_isNumber == [v |-> "isNumber"]
V_isDate == [v |-> "isDate"]
V_isPayload(spec) == [v |-> "isPayload", spec |-> spec]
V_isArray(spec, delimiter) == [v |-> "isArray", spec |-> spec, delimiter |-> delimiter]
V_isTuple(spec, delimiter) == [v |-> "isTuple", spec |-> spec, delimiter |-> delimiter]
V_isRecord(spec, keySpec) == [v |-> "isRecord", spec |-> spec, keySpec |-> keySpec]
V_isObject(specKeys, props, extraSpec) ==
  [v |-> "isObject", specKeys |-> specKeys, props |-> props, extraSpec |-> extraSpec]
V_isSet(spec, delimiter) == [v |-> "isSet", spec |-> spec, delimiter |-> delimiter]
V_isMap(keySpec, spec) == [v |-> "isMap", keySpec |-> keySpec, spec |-> spec]
V_isOneOf(specs, exclusive) == [v |-> "isOneOf", specs |-> specs, exclusive |-> exclusive]
V_cascade(spec, followups) == [v |-> "cascade", spec |-> spec, followups |-> followups]
V_isOptional(spec) == [v |-> "isOptional", spec |-> spec]
V_isNullable(spec) == [v |-> "isNullable", spec |-> spec]
V_isAtLeast(n) == [v |-> "isAtLeast", n |-> n]
V_isInteger == [v |-> "isInteger"]
V_hasMinLength(length) == [v |-> "hasMinLength", length |-> length]
V_hasExactLength(length) == [v |-> "hasExactLength", length |-> length]
V_isUpperCase == [v |-> "isUpperCase"]
V_isJSON(spec) == [v |-> "isJSON", spec |-> spec]
NoDelimiter == ""

RECURSIVE Run(_, _, _, _)

isUnknown(V, value, st, w) == R(TRUE, w)

isString(V, value, st, w) ==
  IF value.t # "str"
  THEN pushError(st, w, "Expected a string (got " \o getPrintable(w.heap, value) \o ")")
  ELSE R(TRUE, w)

isLiteral(V, value, st, w) ==
  IF value # V.expected
  THEN pushError(st, w, "Expected " \o getPrintable(w.heap, V.expected)
                          \o " (got " \o getPrintable(w.heap, value) \o ")")
  ELSE R(TRUE, w)

(* the table without its capitalised and numeric spellings of false *)
BOOLEAN_COERCIONS_LowerCaseFalse(value) ==
  CASE value \in {Str("true"), Str("True"), Str("1"), Num(1)} -> Bool(TRUE)
    [] value \in {Str("false")} -> Bool(FALSE)
    [] OTHER -> Undef

(* BOOLEAN_COERCIONS.get(value); Undef when the map has no such key *)
BOOLEAN_COERCIONS(value) ==
  CASE value \in {Str("true"), Str("True"), Str("1"), Num(1)} -> Bool(TRUE)
    [] value \in {Str("false"), Str("False"), Str("0"), Num(0)} -> Bool(FALSE)
    [] OTHER -> Undef

isBoolean(V, value, st, w) ==
  IF value.t # "bool"
  THEN IF st.coercionsOn /\ ~st.coercion.bound
       THEN pushError(st, w, "Unbound coercion result")
       ELSE IF st.coercionsOn /\ BOOLEAN_COERCIONS(value) # Undef
       THEN R(TRUE, PushCoercion(st, w, Bind(st.coercion, BOOLEAN_COERCIONS(value))))
       ELSE pushError(st, w, "Expected a boolean (got " \o getPrintable(w.heap, value) \o ")")
  ELSE R(TRUE, w)

(***************************************************************************)
(* Number arithmetic of isDate.  The runtime's numbers hold integers       *)
(* exactly up to 2^53 - 1; the model keeps the same rule on a narrower     *)
(* width, so that a timestamp times 1000 stays inside the integers of TLC. *)
(***************************************************************************)
SafeBits == 20
MAX_SAFE_INTEGER == 2^SafeBits - 1
(* the largest time value of a Date, 8.64e15 for 2^53 - 1, on that width *)
MaxTimeValue == (MAX_SAFE_INTEGER \div 25) * 24
(* Number.isSafeInteger(x) *)
isSafeInteger(x) == x.s = "" /\ x.n <= MAX_SAFE_INTEGER /\ x.n >= -MAX_SAFE_INTEGER
(* the fractional parts of the model times 1000 *)
FractionTimes1000(s) ==
  CASE s = "" -> Num(0)
    [] s = ".42" -> Num(420)
    [] s = ".0001" -> Frac(0, ".1")
(* timestamp * 1000 *)
Times1000(x) == Frac(x.n * 1000 + FractionTimes1000(x.s).n, FractionTimes1000(x.s).s)
(* new Date(ms): the time value drops the fractional part, and there is    *)
(* none outside the range of time values                                   *)
NewDate(ms) == IF ms.n > MaxTimeValue \/ ms.n < -MaxTimeValue THEN InvalidDate ELSE DateOf(ms.n)
(* iso8601RegExp.test(value) and new Date(value) for the strings of the model *)
Iso8601Texts == {"1970-01-01T00:00:42Z"}
iso8601RegExp(s) == s \in Iso8601Texts
DateParse(s) == CASE s = "1970-01-01T00:00:42Z" -> DateOf(42000)

(* the timestamp isDate reads from value; Undef when it reads none *)
TimestampOf(value) ==
  IF value.t = "str"
  THEN (IF JsonParseOk(value.s) /\ JsonParse(value.s).t = "num" THEN JsonParse(value.s) ELSE Undef)
  ELSE IF value.t = "num" THEN value ELSE Undef

(* the raw value inside a template string: ${value} *)
TemplateText(heap, value) == IF value.t = "str" THEN value.s ELSE JsonStringify(heap, value)

isDate(V, value, st, w) ==
  IF value.t # "date"
  THEN IF st.coercionsOn /\ ~st.coercion.bound THEN pushError(st, w, "Unbound coercion result")
       ELSE IF st.coercionsOn /\ value.t = "str" /\ iso8601RegExp(value.s)
       THEN R(TRUE, PushCoercion(st, w, Bind(st.coercion, DateParse(value.s))))
       ELSE IF st.coercionsOn /\ TimestampOf(value) # Undef
       THEN Let(TimestampOf(value), LAMBDA timestamp :
              IF isSafeInteger(timestamp) \/ ~isSafeInteger(Times1000(timestamp))
              THEN R(TRUE, PushCoercion(st, w, Bind(st.coercion, NewDate(Times1000(timestamp)))))
              ELSE pushError(st, w, "Received a timestamp that can't be safely represented by the runtime ("
                                      \o TemplateText(w.heap, value) \o ")"))
       ELSE pushError(st, w, "Expected a date (got " \o getPrintable(w.heap, value) \o ")")
  ELSE R(TRUE, w)

isNumber(V, value, st, w) ==
  LET expected == pushError(st, w, "Expected a number (got " \o getPrintable(w.heap, value) \o ")")
      val == IF value.t = "str" /\ JsonParseOk(value.s) THEN JsonParse(value.s) ELSE Undef
  IN
  IF value.t # "num"
  THEN IF ~st.coercionsOn THEN expected
       ELSE IF ~st.coercion.bound THEN pushError(st, w, "Unbound coercion result")
       ELSE IF val.t = "num"
       THEN IF JsonStringify(w.heap, val) = value.s
            THEN R(TRUE, PushCoercion(st, w, Bind(st.coercion, val)))
            ELSE pushError(st, w, "Received a number that can't be safely represented by the runtime ("
                                    \o value.s \o ")")
       ELSE expected
  ELSE R(TRUE, w)

isPayload(V, value, st, w) ==
  IF ~st.coercionsOn
  THEN pushError(st, w, "The isPayload predicate can only be used with coercion enabled")
  ELSE IF ~st.coercion.bound THEN pushError(st, w, "Unbound coercion result")
  ELSE IF value.t # "str"
  THEN pushError(st, w, "Expected a string (got " \o getPrintable(w.heap, value) \o ")")
  ELSE IF ~JsonParseOk(value.s)
  THEN pushError(st, w, "Expected a JSON string (got " \o getPrintable(w.heap, value) \o ")")
  ELSE LET inner == JsonParse(value.s)
           wrapper == Alloc(w.heap, Box(inner))
           r == Run(V.spec, inner, [st EXCEPT !.coercion = CoercionFnOf(wrapper.ref.n, Str("value"))],
                    [w EXCEPT !.heap = wrapper.heap])
       IN IF r.exc \/ ~r.ok THEN r
          ELSE R(TRUE, PushCoercion(st, r.w,
                         Bind(st.coercion, GetProp(r.w.heap, wrapper.ref.n, Str("value")))))

(***************************************************************************)
(* Cascading predicates (the followups of cascade).                        *)
(***************************************************************************)
(* ToNumber as the relational operators apply it; nan for no number *)
ToNumber(value) ==
  CASE value.t = "num" -> [nan |-> FALSE, n |-> value.n]
    [] value.t = "bool" -> [nan |-> FALSE, n |-> value.n]
    [] value.t = "null" -> [nan |-> FALSE, n |-> 0]
    [] value.t = "str" /\ JsonParseOk(value.s) /\ JsonParse(value.s).t = "num" ->
         [nan |-> FALSE, n |-> JsonParse(value.s).n]
    [] value = Str("") -> [nan |-> FALSE, n |-> 0]
    [] OTHER -> [nan |-> TRUE, n |-> 0]

isAtLeast(V, value, st, w) ==
  IF ~(~ToNumber(value).nan /\ ToNumber(value).n >= V.n)
  THEN pushError(st, w, "Expected to be at least " \o ToString(V.n)
                          \o " (got " \o JsonStringify(w.heap, value) \o ")")
  ELSE R(TRUE, w)

(* value !== Math.round(value) holds for what is no number and for a      *)
(* number with a fractional part; the integers of the model are safe       *)
isInteger(V, value, st, w) ==
  IF value.t # "num" \/ value.s # ""
  THEN pushError(st, w, "Expected to be an integer (got " \o JsonStringify(w.heap, value) \o ")")
  ELSE R(TRUE, w)

(* value.length: reading a property of undefined or null throws *)
HasLength(heap, value) == IsArray(heap, value)
LengthOf(heap, value) == Len(heap[value.n].vals)
LengthText(heap, value) == IF HasLength(heap, value) THEN ToString(LengthOf(heap, value)) ELSE "undefined"

hasMinLength(V, value, st, w) ==
  IF value.t \in {"undef", "null"} THEN Throw(w)
  ELSE IF ~(HasLength(w.heap, value) /\ LengthOf(w.heap, value) >= V.length)
  THEN pushError(st, w, "Expected to have a length of at least " \o ToString(V.length)
                          \o " elements (got " \o LengthText(w.heap, value) \o ")")
  ELSE R(TRUE, w)

hasExactLength(V, value, st, w) ==
  IF value.t \in {"undef", "null"} THEN Throw(w)
  ELSE IF ~(HasLength(w.heap, value) /\ LengthOf(w.heap, value) = V.length)
  THEN pushError(st, w, "Expected to have a length of exactly " \o ToString(V.length)
                          \o " elements (got " \o LengthText(w.heap, value) \o ")")
  ELSE R(TRUE, w)

(* JSON.parse(value), which first turns what is no string into its text:   *)
(* a number, a boolean and null parse to themselves, undefined and the     *)
(* text of an object are no JSON                                           *)
JsonParsable(value) ==
  IF value.t = "str" THEN JsonParseOk(value.s) ELSE value.t \in {"num", "bool", "null"}
JsonParsed(value) == IF value.t = "str" THEN JsonParse(value.s) ELSE value

isJSON(V, value, st, w) ==
  IF ~JsonParsable(value)
  THEN pushError(st, w, "Expected to be a valid JSON string (got " \o getPrintable(w.heap, value) \o ")")
  ELSE Run(V.spec, JsonParsed(value), st, w)

(* value.toUpperCase() of the strings of the model; calling it on a value   *)
(* that is not a string throws                                              *)
UpperCaseStrings == {"", "1", "42", "7", "0", "FOO"}
isUpperCase(V, value, st, w) ==
  IF value.t # "str" THEN Throw(w)
  ELSE IF value.s \notin UpperCaseStrings
  THEN pushError(st, w, "Expected to be all-uppercase (got " \o value.s \o ")")
  ELSE R(TRUE, w)

(***************************************************************************)
(* Composite validators.                                                   *)
(***************************************************************************)
StrItems(strs) == [i \in 1..Len(strs) |-> Str(strs[i])]

(* what isArray is observed to do with element t: the item validator, the  *)
(* value and heap it was called with, its verdict and the errors it added  *)
elementVisit(spec, arr, t, st, w, r) ==
  [e |-> "element", arr |-> arr, t |-> t, st |-> st, spec |-> spec,
   value |-> GetProp(w.heap, arr, Num(t)), heap |-> w.heap, ok |-> r.ok,
   errs |-> SubSeq(r.w.errs, Len(w.errs) + 1, Len(r.w.errs))]

RECURSIVE isArrayLoopVisitingAll(_, _, _, _, _, _, _)
(* the element loop never left early *)
isArrayLoopVisitingAll(spec, arr, T, t, st, valid, w) ==
  IF t >= T THEN R(valid, w)
  ELSE Let(Run(spec, GetProp(w.heap, arr, Num(t)),
               [st EXCEPT !.p = computeKey(st, Num(t)), !.coercion = CoercionFnOf(arr, Num(t))], w),
           LAMBDA r :
             IF r.exc THEN r
             ELSE isArrayLoopVisitingAll(spec, arr, T, t + 1, st, r.ok /\ valid,
                                         [r.w EXCEPT !.log = Append(@, elementVisit(spec, arr, t, st, w, r))]))

RECURSIVE isArrayLoop(_, _, _, _, _, _, _)
(* the element loop of isArray: for (t = 0; t < T; ++t) *)
isArrayLoop(spec, arr, T, t, st, valid, w) ==
  IF t >= T THEN R(valid, w)
  ELSE Let(Run(spec, GetProp(w.heap, arr, Num(t)),
               [st EXCEPT !.p = computeKey(st, Num(t)), !.coercion = CoercionFnOf(arr, Num(t))], w),
           LAMBDA r :
             IF r.exc THEN r
             ELSE IF ~(r.ok /\ valid) /\ ~st.errorsOn
             THEN R(FALSE, [r.w EXCEPT !.log = Append(@, elementVisit(spec, arr, t, st, w, r))])
             ELSE isArrayLoop(spec, arr, T, t + 1, st, r.ok /\ valid,
                              [r.w EXCEPT !.log = Append(@, elementVisit(spec, arr, t, st, w, r))]))

(* what an isArray call on an array is observed to have done; from is the  *)
(* number of observations made before the call                             *)
arrayExit(V, arr, st, w0, r) ==
  [e |-> "isArray", V |-> V, arr |-> arr, T |-> Len(w0.heap[arr].vals), st |-> st, ok |-> r.ok,
   errsIn |-> w0.errs, errsOut |-> r.w.errs, from |-> Len(w0.log)]

isArray(V, originalValue, st, w0) ==
  LET splits == originalValue.t = "str" /\ V.delimiter # NoDelimiter /\ st.coercionsOn
      a == IF splits THEN Alloc(w0.heap, ArrayObj(StrItems(Split(originalValue.s))))
           ELSE [heap |-> w0.heap, ref |-> originalValue]
      value == a.ref
      w == [w0 EXCEPT !.heap = a.heap]
  IN IF splits /\ ~st.coercion.bound THEN pushError(st, w0, "Unbound coercion result")
     ELSE IF ~IsArray(w.heap, value)
     THEN pushError(st, w, "Expected an array (got " \o getPrintable(w.heap, value) \o ")")
     ELSE Let(isArrayLoop(V.spec, value.n, Len(w.heap[value.n].vals), 0, st, TRUE, w),
              LAMBDA r :
                IF r.exc THEN r
                ELSE [ok |-> r.ok, exc |-> FALSE,
                      w |-> [(IF value # originalValue
                              THEN PushCoercion(st, r.w, Bind(st.coercion, value))
                              ELSE r.w)
                             EXCEPT !.log = Append(@, arrayExit(V, value.n, st, w, r))]])

RECURSIVE isTupleLoop(_, _, _, _, _, _, _)
(* the element loop of isTuple: for (t = 0; t < T && t < spec.length; ++t) *)
isTupleLoop(spec, arr, T, t, st, valid, w) ==
  IF t >= T \/ t >= Len(spec) THEN R(valid, w)
  ELSE LET r == Run(spec[t + 1], GetProp(w.heap, arr, Num(t)),
                    [st EXCEPT !.p = computeKey(st, Num(t)), !.coercion = CoercionFnOf(arr, Num(t))], w)
           valid2 == r.ok /\ valid
       IN IF r.exc THEN r
          ELSE IF ~valid2 /\ ~st.errorsOn THEN R(valid2, r.w)
          ELSE isTupleLoop(spec, arr, T, t + 1, st, valid2, r.w)

(* the length of the array never compared with the number of specs *)
isTupleAnyLength(V, value0, st, w0) ==
  LET splits == value0.t = "str" /\ V.delimiter # NoDelimiter /\ st.coercionsOn
      a == IF splits THEN Alloc(w0.heap, ArrayObj(StrItems(Split(value0.s))))
           ELSE [heap |-> w0.heap, ref |-> value0]
      value == a.ref
      w == IF splits THEN PushCoercion(st, [w0 EXCEPT !.heap = a.heap], Bind(st.coercion, value))
           ELSE w0
  IN IF splits /\ ~st.coercion.bound THEN pushError(st, w0, "Unbound coercion result")
     ELSE IF ~IsArray(w.heap, value)
     THEN pushError(st, w, "Expected a tuple (got " \o getPrintable(w.heap, value) \o ")")
     ELSE isTupleLoop(V.spec, value.n, Len(w.heap[value.n].vals), 0, st, TRUE, w)

isTuple(V, value0, st, w0) ==
  LET splits == value0.t = "str" /\ V.delimiter # NoDelimiter /\ st.coercionsOn
      a == IF splits THEN Alloc(w0.heap, ArrayObj(StrItems(Split(value0.s))))
           ELSE [heap |-> w0.heap, ref |-> value0]
      value == a.ref
      w == IF splits THEN PushCoercion(st, [w0 EXCEPT !.heap = a.heap], Bind(st.coercion, value))
           ELSE w0
  IN IF splits /\ ~st.coercion.bound THEN pushError(st, w0, "Unbound coercion result")
     ELSE IF ~IsArray(w.heap, value)
     THEN pushError(st, w, "Expected a tuple (got " \o getPrintable(w.heap, value) \o ")")
     ELSE LET lengthValidator == hasExactLength(V_hasExactLength(Len(V.spec)), value, st, w)
          IN isTupleLoop(V.spec, value.n, Len(w.heap[value.n].vals), 0, st,
                         lengthValidator.ok, lengthValidator.w)

(* the property name a key value converts to *)
ToPropertyKey(heap, key) == IF key.t = "str" THEN key.s ELSE JsonStringify(heap, key)

RECURSIVE fromEntriesLoop(_, _, _, _)
fromEntriesLoop(heap, pairs, i, obj) ==
  IF i > Len(pairs) THEN heap
  ELSE LET pair == pairs[i].n
       IN fromEntriesLoop(PutData(heap, obj, Str(ToPropertyKey(heap, GetProp(heap, pair, Num(0)))),
                                  GetProp(heap, pair, Num(1))),
                          pairs, i + 1, obj)

(* Object.fromEntries(value) for an array of pair arrays *)
ObjectFromEntries(heap, value) ==
  LET o == Alloc(heap, PlainObj(<<>>, <<>>))
  IN [heap |-> fromEntriesLoop(o.heap, heap[value.n].vals, 1, o.ref.n), ref |-> o.ref]

UnsafeKeys == {"__proto__", "constructor"}

RECURSIVE isRecordLoop(_, _, _, _, _, _, _)
(* the key loop of isRecord: for (t = 0; t < T && (valid || errors != null); ++t) *)
isRecordLoop(V, obj, keys, t, st, valid, w) ==
  IF ~(t < Len(keys) /\ (valid \/ st.errorsOn)) THEN R(valid, w)
  ELSE LET key == keys[t + 1]
           sub == GetProp(w.heap, obj, Str(key))
           subSt == [st EXCEPT !.p = computeKey(st, Str(key))]
       IN IF key \in UnsafeKeys
          THEN isRecordLoop(V, obj, keys, t + 1, st, FALSE,
                            pushError(subSt, w, "Unsafe property name").w)
          ELSE LET rk == IF V.keySpec # NoSpec THEN Run(V.keySpec, Str(key), st, w) ELSE R(TRUE, w)
               IN IF rk.exc THEN rk
                  ELSE IF ~rk.ok THEN isRecordLoop(V, obj, keys, t + 1, st, FALSE, rk.w)
                  ELSE LET rv == Run(V.spec, sub,
                                     [subSt EXCEPT !.coercion = CoercionFnOf(obj, Str(key))], rk.w)
                       IN IF rv.exc THEN rv
                          ELSE isRecordLoop(V, obj, keys, t + 1, st, rv.ok /\ valid, rv.w)

isRecord(V, value, st, w) ==
  LET isArrayValidator ==
        V_isArray(V_isTuple(<<IF V.keySpec # NoSpec THEN V.keySpec ELSE V_isString, V.spec>>,
                            NoDelimiter), NoDelimiter)
  IN
  IF IsArray(w.heap, value) /\ st.coercionsOn
  THEN IF ~st.coercion.bound THEN pushError(st, w, "Unbound coercion result")
       ELSE LET r == Run(isArrayValidator, value, [st EXCEPT !.coercion = Unbound], w)
            IN IF r.exc \/ ~r.ok THEN r
               ELSE LET o == ObjectFromEntries(r.w.heap, value)
                    IN R(TRUE, PushCoercion(st, [r.w EXCEPT !.heap = o.heap],
                                            Bind(st.coercion, o.ref)))
  ELSE IF value.t # "ref"
  THEN pushError(st, w, "Expected an object (got " \o getPrintable(w.heap, value) \o ")")
  ELSE isRecordLoop(V, value.n, ObjectKeys(w.heap, value.n), 0, st, TRUE, w)

PropSpec(V, key) ==
  IF IndexOf(V.specKeys, key) # 0 THEN V.props[IndexOf(V.specKeys, key)] ELSE NoSpec

RECURSIVE isObjectLoop(_, _, _, _, _, _, _, _)
(* the key loop of isObject; extra collects the undeclared keys and their   *)
(* values as read in the loop                                               *)
isObjectLoop(V, obj, keys, i, st, valid, w, extra) ==
  IF i > Len(keys) THEN [r |-> R(valid, w), extra |-> extra]
  ELSE LET key == keys[i]
           spec == PropSpec(V, key)
           sub == GetProp(w.heap, obj, Str(key))
           subSt == [st EXCEPT !.p = computeKey(st, Str(key))]
           r == IF key \in UnsafeKeys THEN pushError(subSt, w, "Unsafe property name")
                ELSE IF spec # NoSpec
                THEN LET rs == Run(spec, sub, [subSt EXCEPT !.coercion = CoercionFnOf(obj, Str(key))], w)
                     IN [rs EXCEPT !.ok = rs.ok /\ valid]
                ELSE IF V.extraSpec = NoSpec
                THEN pushError(subSt, w, "Extraneous property (got " \o getPrintable(w.heap, sub) \o ")")
                ELSE R(valid, w)
           extra2 == IF key \notin UnsafeKeys /\ spec = NoSpec /\ V.extraSpec # NoSpec
                     THEN [keys |-> Append(extra.keys, key), vals |-> Append(extra.vals, sub)]
                     ELSE extra
       IN IF r.exc THEN [r |-> r, extra |-> extra2]
          ELSE IF ~r.ok /\ ~st.errorsOn THEN [r |-> r, extra |-> extra2]
          ELSE isObjectLoop(V, obj, keys, i + 1, st, r.ok, r.w, extra2)

(* what isObject is observed to hand to `extra`: the bag, its keys and the  *)
(* result of the per-key loop before it                                    *)
extraVisit(obj, bag, l, st) ==
  [e |-> "extra", obj |-> obj, bag |-> bag, keys |-> l.extra.keys, valid |-> l.r.ok, st |-> st,
   errsIn |-> l.r.w.errs]

(* `extra` run on the bag whatever the per-key loop returned *)
isObjectExtraAlways(V, value, st, w) ==
  IF value.t # "ref"
  THEN pushError(st, w, "Expected an object (got " \o getPrintable(w.heap, value) \o ")")
  ELSE LET keys == Dedup(V.specKeys \o ObjectKeys(w.heap, value.n), <<>>)
           l == isObjectLoop(V, value.n, keys, 1, st, TRUE, w, [keys |-> <<>>, vals |-> <<>>])
           bag == Alloc(l.r.w.heap, [k |-> "object", keys |-> l.extra.keys,
                                     vals |-> l.extra.vals, fwd |-> value.n])
       IN IF l.r.exc THEN l.r
          ELSE IF V.extraSpec # NoSpec
          THEN LET re == Run(V.extraSpec, bag.ref, st,
                             [l.r.w EXCEPT !.heap = bag.heap,
                                           !.log = Append(@, extraVisit(value.n, bag.ref.n, l, st))])
               IN [re EXCEPT !.ok = re.ok /\ l.r.ok]
          ELSE l.r

(* only the declared keys visited, the input's other keys never looked at *)
isObjectDeclaredKeysOnly(V, value, st, w) ==
  IF value.t # "ref"
  THEN pushError(st, w, "Expected an object (got " \o getPrintable(w.heap, value) \o ")")
  ELSE LET keys == Dedup(V.specKeys, <<>>)
           l == isObjectLoop(V, value.n, keys, 1, st, TRUE, w, [keys |-> <<>>, vals |-> <<>>])
           bag == Alloc(l.r.w.heap, [k |-> "object", keys |-> l.extra.keys,
                                     vals |-> l.extra.vals, fwd |-> value.n])
       IN IF l.r.exc THEN l.r
          ELSE IF V.extraSpec # NoSpec /\ (l.r.ok \/ st.errorsOn)
          THEN LET re == Run(V.extraSpec, bag.ref, st,
                             [l.r.w EXCEPT !.heap = bag.heap,
                                           !.log = Append(@, extraVisit(value.n, bag.ref.n, l, st))])
               IN [re EXCEPT !.ok = re.ok /\ l.r.ok]
          ELSE l.r

isObject(V, value, st, w) ==
  IF value.t # "ref"
  THEN pushError(st, w, "Expected an object (got " \o getPrintable(w.heap, value) \o ")")
  ELSE LET keys == Dedup(V.specKeys \o ObjectKeys(w.heap, value.n), <<>>)
           l == isObjectLoop(V, value.n, keys, 1, st, TRUE, w, [keys |-> <<>>, vals |-> <<>>])
           bag == Alloc(l.r.w.heap, [k |-> "object", keys |-> l.extra.keys,
                                     vals |-> l.extra.vals, fwd |-> value.n])
       IN IF l.r.exc THEN l.r
          ELSE IF V.extraSpec # NoSpec /\ (l.r.ok \/ st.errorsOn)
          THEN LET re == Run(V.extraSpec, bag.ref, st,
                             [l.r.w EXCEPT !.heap = bag.heap,
                                           !.log = Append(@, extraVisit(value.n, bag.ref.n, l, st))])
               IN [re EXCEPT !.ok = re.ok /\ l.r.ok]
          ELSE l.r

RECURSIVE isSetLoop(_, _, _, _, _, _)
(* isSet on a Set without coercion: for (const subValue of value) *)
isSetLoop(spec, items, i, st, valid, w) ==
  IF i > Len(items) THEN R(valid, w)
  ELSE LET r == Run(spec, items[i], st, w)
           valid2 == r.ok /\ valid
       IN IF r.exc THEN r
          ELSE IF ~valid2 /\ ~st.errorsOn THEN R(valid2, r.w)
          ELSE isSetLoop(spec, items, i + 1, st, valid2, r.w)

isSet(V, value, st, w) ==
  LET isArrayValidator == V_isArray(V.spec, V.delimiter)
  IN
  (* Object.getPrototypeOf(undefined | null) throws a TypeError *)
  IF value.t \in {"undef", "null"} THEN Throw(w)
  ELSE IF IsSetObj(w.heap, value)
  THEN IF st.coercionsOn
       THEN IF ~st.coercion.bound THEN pushError(st, w, "Unbound coercion result")
            ELSE LET originalValues == Alloc(w.heap, ArrayObj(w.heap[value.n].vals))
                     coercedValues == Alloc(originalValues.heap, ArrayObj(w.heap[value.n].vals))
                     r == Run(isArrayValidator, coercedValues.ref, [st EXCEPT !.coercion = Unbound],
                              [w EXCEPT !.heap = coercedValues.heap])
                     updateValue == [g |-> "updateSet", a |-> coercedValues.ref.n,
                                     b |-> originalValues.ref.n, value |-> value]
                 IN IF r.exc \/ ~r.ok THEN r
                    ELSE R(TRUE, PushCoercion(st, r.w, makeLazyCoercionFn(st.coercion, value, updateValue)))
       ELSE isSetLoop(V.spec, w.heap[value.n].vals, 1, st, TRUE, w)
  ELSE IF st.coercionsOn
  THEN IF ~st.coercion.bound THEN pushError(st, w, "Unbound coercion result")
       ELSE LET store == Alloc(w.heap, Box(value))
                r == Run(isArrayValidator, value,
                         [st EXCEPT !.coercion = CoercionFnOf(store.ref.n, Str("value"))],
                         [w EXCEPT !.heap = store.heap])
                newSet == [g |-> "newSet", a |-> store.ref.n, b |-> 0, value |-> Undef]
            IN IF r.exc \/ ~r.ok THEN r
               ELSE R(TRUE, PushCoercion(st, r.w, makeLazyCoercionFn(st.coercion, value, newSet)))
  ELSE pushError(st, w, "Expected a set (got " \o getPrintable(w.heap, value) \o ")")

RECURSIVE isMapLoop(_, _, _, _, _, _)
(* isMap on a Map without coercion: for (const [key, subValue] of value) *)
isMapLoop(V, flat, i, st, valid, w) ==
  IF i > Len(flat) THEN R(valid, w)
  ELSE Let(Run(V.keySpec, flat[i], st, w), LAMBDA rk :
         IF rk.exc THEN rk
         ELSE IF ~(rk.ok /\ valid) /\ ~st.errorsOn THEN R(FALSE, rk.w)
         ELSE Let(Run(V.spec, flat[i + 1], [st EXCEPT !.p = computeKey(st, flat[i])], rk.w), LAMBDA rv :
                IF rv.exc THEN rv
                ELSE IF ~(rv.ok /\ rk.ok /\ valid) /\ ~st.errorsOn THEN R(FALSE, rv.w)
                ELSE isMapLoop(V, flat, i + 2, st, rv.ok /\ rk.ok /\ valid, rv.w)))

(* the entry isMap records once its array or record check has passed *)
isMapPush(st, value, r, gen) ==
  IF r.exc \/ ~r.ok THEN r
  ELSE R(TRUE, PushCoercion(st, r.w, makeLazyCoercionFn(st.coercion, value, gen)))

isMap(V, value, st, w) ==
  LET isArrayValidator == V_isArray(V_isTuple(<<V.keySpec, V.spec>>, NoDelimiter), NoDelimiter)
      isRecordValidator == V_isRecord(V.spec, V.keySpec)
  IN
  (* Object.getPrototypeOf(undefined | null) throws a TypeError *)
  IF value.t \in {"undef", "null"} THEN Throw(w)
  ELSE IF IsMapObj(w.heap, value)
  THEN IF st.coercionsOn
       THEN IF ~st.coercion.bound THEN pushError(st, w, "Unbound coercion result")
            ELSE Let(AllocPairs(w.heap, w.heap[value.n].vals, 1, <<>>), LAMBDA originalValues :
                 Let(AllocPairs(originalValues.heap, w.heap[value.n].vals, 1, <<>>), LAMBDA coercedValues :
                   isMapPush(st, value,
                             Run(isArrayValidator, coercedValues.ref, [st EXCEPT !.coercion = Unbound],
                                 [w EXCEPT !.heap = coercedValues.heap]),
                             [g |-> "updateMap", a |-> coercedValues.ref.n,
                              b |-> originalValues.ref.n, value |-> value])))
       ELSE isMapLoop(V, w.heap[value.n].vals, 1, st, TRUE, w)
  ELSE IF st.coercionsOn
  THEN IF ~st.coercion.bound THEN pushError(st, w, "Unbound coercion result")
       ELSE Let(Alloc(w.heap, Box(value)), LAMBDA store :
              IF IsArray(w.heap, value)
              THEN isMapPush(st, value,
                             Run(isArrayValidator, value, [st EXCEPT !.coercion = Unbound],
                                 [w EXCEPT !.heap = store.heap]),
                             [g |-> "newMapOfPairs", a |-> store.ref.n, b |-> 0, value |-> Undef])
              ELSE isMapPush(st, value,
                             Run(isRecordValidator, value,
                                 [st EXCEPT !.coercion = CoercionFnOf(store.ref.n, Str("value"))],
                                 [w EXCEPT !.heap = store.heap]),
                             [g |-> "newMapOfEntries", a |-> store.ref.n, b |-> 0, value |-> Undef]))
  ELSE pushError(st, w, "Expected a map (got " \o getPrintable(w.heap, value) \o ")")

(***************************************************************************)
(* Combinators.                                                            *)
(***************************************************************************)
UndefinedError == "<undefined>"

RECURSIVE JoinCoercions(_, _, _)
(* String(subCoercions): the entries, each rendered as "<path>,<function>" *)
JoinCoercions(coes, i, acc) ==
  IF i > Len(coes) THEN acc
  ELSE JoinCoercions(coes, i + 1, (IF i = 1 THEN "" ELSE acc \o ",") \o coes[i].p \o ",<fn>")

RECURSIVE JoinMatches(_, _, _, _)
(* matches.join(`, `) where a match is the pair [`#n`, subCoercions] *)
JoinMatches(matches, coercionsOn, i, acc) ==
  IF i > Len(matches) THEN acc
  ELSE JoinMatches(matches, coercionsOn, i + 1,
                   (IF i = 1 THEN "" ELSE acc \o ", ") \o "#" \o ToString(matches[i].t) \o ","
                     \o (IF coercionsOn THEN JoinCoercions(matches[i].subCoercions, 1, "") ELSE ""))

RECURSIVE isOneOfLoop(_, _, _, _, _, _, _, _)
(* the branch loop of isOneOf; w.errs / w.coes stay the parent's lists;     *)
(* tried records, per branch called, its result and its own two lists      *)
isOneOfLoop(V, value, t, st, matches, errorBuffer, tried, w) ==
  IF t >= Len(V.specs)
  THEN [r |-> R(TRUE, w), matches |-> matches, errorBuffer |-> errorBuffer, tried |-> tried]
  ELSE LET r == Run(V.specs[t + 1], value,
                    [st EXCEPT !.p = PathOr(st.p, ".") \o "#" \o ToString(t + 1)],
                    [w EXCEPT !.errs = <<>>, !.coes = <<>>])
           w2 == [r.w EXCEPT !.errs = w.errs, !.coes = w.coes]
           tried2 == Append(tried, [ok |-> r.ok, errs |-> r.w.errs, coes |-> r.w.coes, heap |-> w.heap])
       IN IF r.exc
          THEN [r |-> Throw(w2), matches |-> matches, errorBuffer |-> errorBuffer, tried |-> tried2]
          ELSE IF r.ok
          THEN LET matches2 == Append(matches, [t |-> t + 1, subCoercions |-> r.w.coes])
               IN IF ~V.exclusive
                  THEN [r |-> R(TRUE, w2), matches |-> matches2, errorBuffer |-> errorBuffer,
                        tried |-> tried2]
                  ELSE isOneOfLoop(V, value, t + 1, st, matches2, errorBuffer, tried2, w2)
          ELSE isOneOfLoop(V, value, t + 1, st, matches,
                           IF st.errorsOn
                           THEN Append(errorBuffer, IF r.w.errs = <<>> THEN UndefinedError ELSE r.w.errs[1])
                           ELSE errorBuffer,
                           tried2, w2)

(* what an isOneOf call is observed to have done *)
oneOfExit(V, value, st, w, res, tried) ==
  [e |-> "isOneOf", V |-> V, value |-> value, st |-> st, ok |-> res.ok,
   errsIn |-> w.errs, errsOut |-> res.w.errs,
   coesIn |-> w.coes, coesOut |-> res.w.coes, tried |-> tried]

(* every called branch's coercions reach the parent's list *)
isOneOfSharedCoercions(V, value, st, w) ==
  Let(isOneOfLoop(V, value, 0, st, <<>>, <<>>, <<>>, w), LAMBDA l :
  Let(IF Len(l.matches) = 1
      THEN R(TRUE, IF st.coercionsOn
                       THEN [l.r.w EXCEPT !.coes = @ \o (IF Len(l.tried) > 1 THEN l.tried[1].coes ELSE <<>>) \o l.matches[1].subCoercions]
                       ELSE l.r.w)
      ELSE IF Len(l.matches) > 1
      THEN pushError(st, l.r.w, "Expected to match exactly a single predicate (matched "
                                      \o JoinMatches(l.matches, st.coercionsOn, 1, "") \o ")")
      ELSE R(FALSE, IF st.errorsOn THEN [l.r.w EXCEPT !.errs = @ \o l.errorBuffer] ELSE l.r.w),
      LAMBDA res :
        IF l.r.exc THEN l.r
        ELSE [res EXCEPT !.w.log = Append(@, oneOfExit(V, value, st, w, res, l.tried))]))

(* any match accepted, the count of matches ignored *)
isOneOfAnyMatch(V, value, st, w) ==
  Let(isOneOfLoop(V, value, 0, st, <<>>, <<>>, <<>>, w), LAMBDA l :
  Let(IF Len(l.matches) >= 1
      THEN R(TRUE, IF st.coercionsOn
                       THEN [l.r.w EXCEPT !.coes = @ \o l.matches[1].subCoercions]
                       ELSE l.r.w)
      ELSE R(FALSE, IF st.errorsOn THEN [l.r.w EXCEPT !.errs = @ \o l.errorBuffer] ELSE l.r.w),
      LAMBDA res :
        IF l.r.exc THEN l.r
        ELSE [res EXCEPT !.w.log = Append(@, oneOfExit(V, value, st, w, res, l.tried))]))

(* the last error of each failing branch reported instead of the first *)
isOneOfLastErrors(V, value, st, w) ==
  Let(isOneOfLoop(V, value, 0, st, <<>>, <<>>, <<>>, w), LAMBDA l :
  Let(IF Len(l.matches) = 1
      THEN R(TRUE, IF st.coercionsOn
                       THEN [l.r.w EXCEPT !.coes = @ \o l.matches[1].subCoercions]
                       ELSE l.r.w)
      ELSE IF Len(l.matches) > 1
      THEN pushError(st, l.r.w, "Expected to match exactly a single predicate (matched "
                                      \o JoinMatches(l.matches, st.coercionsOn, 1, "") \o ")")
      ELSE R(FALSE, IF st.errorsOn
                    THEN [l.r.w EXCEPT !.errs =
                            @ \o [i \in 1..Len(l.tried) |->
                                    IF l.tried[i].errs = <<>> THEN UndefinedError
                                    ELSE l.tried[i].errs[Len(l.tried[i].errs)]]]
                    ELSE l.r.w),
      LAMBDA res :
        IF l.r.exc THEN l.r
        ELSE [res EXCEPT !.w.log = Append(@, oneOfExit(V, value, st, w, res, l.tried))]))

isOneOf(V, value, st, w) ==
  Let(isOneOfLoop(V, value, 0, st, <<>>, <<>>, <<>>, w), LAMBDA l :
  Let(IF Len(l.matches) = 1
      THEN R(TRUE, IF st.coercionsOn
                       THEN [l.r.w EXCEPT !.coes = @ \o l.matches[1].subCoercions]
                       ELSE l.r.w)
      ELSE IF Len(l.matches) > 1
      THEN pushError(st, l.r.w, "Expected to match exactly a single predicate (matched "
                                      \o JoinMatches(l.matches, st.coercionsOn, 1, "") \o ")")
      ELSE R(FALSE, IF st.errorsOn THEN [l.r.w EXCEPT !.errs = @ \o l.errorBuffer] ELSE l.r.w),
      LAMBDA res :
        IF l.r.exc THEN l.r
        ELSE [res EXCEPT !.w.log = Append(@, oneOfExit(V, value, st, w, res, l.tried))]))

RECURSIVE ApplyAll(_, _, _, _)
(* for (const [, coercion] of subCoercions) reverts.push(coercion()) *)
ApplyAll(heap, coes, i, reverts) ==
  IF i > Len(coes) THEN [heap |-> heap, reverts |-> reverts]
  ELSE LET c == Invoke(heap, coes[i].fn)
       IN ApplyAll(c.heap, coes, i + 1, Append(reverts, c.ret))

RECURSIVE RevertAll(_, _, _)
(* finally { for (const revert of reverts) revert() } *)
RevertAll(heap, reverts, i) ==
  IF i > Len(reverts) THEN heap
  ELSE RevertAll(Invoke(heap, reverts[i]).heap, reverts, i + 1)

RECURSIVE every(_, _, _, _, _, _)
(* resolvedFollowups.every(spec => spec(context.value, state)) *)
every(V, context, i, st, w, entry) ==
  IF i > Len(V.followups) THEN R(TRUE, w)
  ELSE Let(GetProp(w.heap, context, Str("value")), LAMBDA arg :
       Let(Run(V.followups[i], arg, st,
               [w EXCEPT !.log = Append(@, [e |-> "followup", lead |-> V.spec, st |-> st,
                                            value |-> entry.value, heap0 |-> entry.heap,
                                            seen |-> Deep(w.heap, arg)])]), LAMBDA r :
         IF r.exc \/ ~r.ok THEN r
         ELSE every(V, context, i + 1, st, r.w, entry)))

(* what a cascade call is observed to have done; r is the result of the     *)
(* lead when it failed and of the followups otherwise                       *)
cascadeExit(V, value, st, w0, leadOk, r, heapOut, coesOut, contextValue) ==
  [e |-> "cascade", V |-> V, value |-> value, st |-> st, leadOk |-> leadOk,
   ok |-> leadOk /\ r.ok, exc |-> r.exc,
   heapIn |-> w0.heap, heapOut |-> heapOut,
   coesIn |-> w0.coes, coesOut |-> coesOut, contextValue |-> contextValue]

(* the lead's coercions handed to the parent only once every followup passed *)
cascadePushingLast(V, value, st, w0) ==
  Let(Alloc(w0.heap, Box(value)), LAMBDA context :
  Let(Run(V.spec, value,
          [st EXCEPT !.coercion = IF st.coercionsOn
                                  THEN CoercionFnOf(context.ref.n, Str("value")) ELSE Unbound],
          [w0 EXCEPT !.heap = context.heap, !.coes = <<>>]), LAMBDA r1 :
  Let(ApplyAll(r1.w.heap, r1.w.coes, 1, <<>>), LAMBDA applied :
  Let(GetProp(applied.heap, context.ref.n, Str("value")), LAMBDA contextValue :
  Let([r1.w EXCEPT !.heap = applied.heap, !.coes = w0.coes], LAMBDA wTry :
  Let(Let(IF st.coercionsOn /\ contextValue # value /\ ~st.coercion.bound
          THEN pushError(st, wTry, "Unbound coercion result")
          ELSE every(V, context.ref.n, 1, st, wTry, [value |-> value, heap |-> w0.heap]),
          LAMBDA ran :
            IF st.coercionsOn /\ ran.ok /\ ~ran.exc
            THEN [ran EXCEPT !.w.coes = @ \o (IF contextValue # value
                  THEN <<[p |-> PathOr(st.p, "."), fn |-> Bind(st.coercion, contextValue)]>>
                  ELSE <<>>) \o r1.w.coes]
            ELSE ran),
      LAMBDA body :
  Let(RevertAll(body.w.heap, applied.reverts, 1), LAMBDA heapOut :
    IF r1.exc \/ ~r1.ok
    THEN [r1 EXCEPT !.w.coes = w0.coes,
                    !.w.log = Append(@, cascadeExit(V, value, st, w0, FALSE, r1, r1.w.heap,
                                                    w0.coes, value))]
    ELSE [body EXCEPT !.w.heap = heapOut,
                      !.w.log = Append(@, cascadeExit(V, value, st, w0, TRUE, body, heapOut,
                                                      body.w.coes, contextValue))])))))))

cascade(V, value, st, w0) ==
  Let(Alloc(w0.heap, Box(value)), LAMBDA context :
  Let(Run(V.spec, value,
          [st EXCEPT !.coercion = IF st.coercionsOn
                                  THEN CoercionFnOf(context.ref.n, Str("value")) ELSE Unbound],
          [w0 EXCEPT !.heap = context.heap, !.coes = <<>>]), LAMBDA r1 :
  Let(ApplyAll(r1.w.heap, r1.w.coes, 1, <<>>), LAMBDA applied :
  Let(GetProp(applied.heap, context.ref.n, Str("value")), LAMBDA contextValue :
  Let([r1.w EXCEPT !.heap = applied.heap, !.coes = w0.coes], LAMBDA wTry :
  Let(IF st.coercionsOn /\ contextValue # value /\ ~st.coercion.bound
      THEN pushError(st, wTry, "Unbound coercion result")
      ELSE every(V, context.ref.n, 1, st,
                 IF st.coercionsOn
                 THEN [wTry EXCEPT !.coes = @ \o (IF contextValue # value
                  THEN <<[p |-> PathOr(st.p, "."), fn |-> Bind(st.coercion, contextValue)]>>
                  ELSE <<>>) \o r1.w.coes]
                 ELSE wTry,
                 [value |-> value, heap |-> w0.heap]),
      LAMBDA body :
  Let(RevertAll(body.w.heap, applied.reverts, 1), LAMBDA heapOut :
    IF r1.exc \/ ~r1.ok
    THEN [r1 EXCEPT !.w.coes = w0.coes,
                    !.w.log = Append(@, cascadeExit(V, value, st, w0, FALSE, r1, r1.w.heap,
                                                    w0.coes, value))]
    ELSE [body EXCEPT !.w.heap = heapOut,
                      !.w.log = Append(@, cascadeExit(V, value, st, w0, TRUE, body, heapOut,
                                                      body.w.coes, contextValue))])))))))

isOptional(V, value, st, w) ==
  IF value.t = "undef" THEN R(TRUE, w) ELSE Run(V.spec, value, st, w)

isNullable(V, value, st, w) ==
  IF value = Null THEN R(TRUE, w) ELSE Run(V.spec, value, st, w)

(* calling a validator: validator(value, state) *)
Run(V, value, st, w) ==
  CASE V.v = "isUnknown" -> isUnknown(V, value, st, w)
    [] V.v = "isString" -> isString(V, value, st, w)
    [] V.v = "isLiteral" -> isLiteral(V, value, st, w)
    [] V.v = "isBoolean" -> isBoolean(V, value, st, w)
    [] V.v = "isNumber" -> isNumber(V, value, st, w)
    [] V.v = "isDate" -> isDate(V, value, st, w)
    [] V.v = "isPayload" -> isPayload(V, value, st, w)
    [] V.v = "isArray" -> isArray(V, value, st, w)
    [] V.v = "isTuple" -> isTuple(V, value, st, w)
    [] V.v = "isRecord" -> isRecord(V, value, st, w)
    [] V.v = "isObject" -> isObject(V, value, st, w)
    [] V.v = "isSet" -> isSet(V, value, st, w)
    [] V.v = "isMap" -> isMap(V, value, st, w)
    [] V.v = "isOneOf" -> isOneOf(V, value, st, w)
    [] V.v = "cascade" -> cascade(V, value, st, w)
    [] V.v = "isOptional" -> isOptional(V, value, st, w)
    [] V.v = "isNullable" -> isNullable(V, value, st, w)
    [] V.v = "isAtLeast" -> isAtLeast(V, value, st, w)
    [] V.v = "isInteger" -> isInteger(V, value, st, w)
    [] V.v = "hasMinLength" -> hasMinLength(V, value, st, w)
    [] V.v = "hasExactLength" -> hasExactLength(V, value, st, w)
    [] V.v = "isUpperCase" -> isUpperCase(V, value, st, w)
    [] V.v = "isJSON" -> isJSON(V, value, st, w)

(***************************************************************************)
(* Entry helper as(value, validator, {coerce, errors, throw}).             *)
(***************************************************************************)
RECURSIVE JoinErrors(_, _, _)
JoinErrors(errors, i, acc) ==
  IF i > Len(errors) THEN acc ELSE JoinErrors(errors, i + 1, acc \o "\n- " \o errors[i])

(* the message without the empty line before the itemized errors *)
TypeAssertionErrorNoBlankLine(errorsOn, errors) ==
  IF errorsOn /\ Len(errors) > 0 THEN JoinErrors(errors, 1, "Type mismatch") ELSE "Type mismatch"

(* the message of new TypeAssertionError({errors}); errorsOn: errors is a list *)
TypeAssertionError(errorsOn, errors) ==
  IF errorsOn /\ Len(errors) > 0 THEN JoinErrors(errors, 1, "Type mismatch" \o "\n") ELSE "Type mismatch"

RECURSIVE asCommit(_, _, _, _)
RECURSIVE asCommitBackwards(_, _, _, _)
(* the commit loop walking the list from its end *)
asCommitBackwards(heap, coercions, i, log) ==
  IF i > Len(coercions) THEN [heap |-> heap, log |-> log]
  ELSE LET j == Len(coercions) + 1 - i
       IN asCommitBackwards(Invoke(heap, coercions[j].fn).heap, coercions, i + 1,
                            Append(log, [e |-> "apply", i |-> j, fn |-> coercions[j].fn]))

(* for (const [, apply] of coercions) apply() *)
asCommit(heap, coercions, i, log) ==
  IF i > Len(coercions) THEN [heap |-> heap, log |-> log]
  ELSE asCommit(Invoke(heap, coercions[i].fn).heap, coercions, i + 1,
                Append(log, [e |-> "apply", i |-> i, fn |-> coercions[i].fn]))

NoErrors == [k |-> "undefined", list |-> <<>>]
ErrorsOf(errorsOn, errs) == IF errorsOn THEN [k |-> "list", list |-> errs] ELSE [k |-> "true", list |-> <<>>]

(* as() starting the validator without a binder for its own slot *)
asWithoutBinder(value, validator, opts, heap0) ==
  Let(Alloc(heap0, Box(value)), LAMBDA state :
  Let(Run(validator, value,
          [p |-> NoPath, errorsOn |-> opts.errors, coercionsOn |-> opts.coerce,
           coercion |-> Unbound],
          [heap |-> IF opts.coerce THEN state.heap ELSE heap0, errs |-> <<>>, coes |-> <<>>,
           log |-> <<>>]), LAMBDA r :
  Let(IF opts.coerce /\ r.ok /\ ~r.exc
      THEN asCommit(r.w.heap, r.w.coes, 1, r.w.log)
      ELSE [heap |-> r.w.heap, log |-> r.w.log], LAMBDA done :
  Let(IF opts.coerce THEN GetProp(done.heap, state.ref.n, Str("value")) ELSE value, LAMBDA result :
    [ret |-> IF r.exc THEN [kind |-> "exception", value |-> Undef, errors |-> NoErrors, message |-> ""]
             ELSE IF r.ok
             THEN [kind |-> IF opts.throws THEN "value" ELSE "result", value |-> result,
                   errors |-> NoErrors, message |-> ""]
             ELSE IF ~opts.throws
             THEN [kind |-> "result", value |-> Undef, errors |-> ErrorsOf(opts.errors, r.w.errs),
                   message |-> ""]
             ELSE [kind |-> "TypeAssertionError", value |-> Undef, errors |-> NoErrors,
                   message |-> TypeAssertionError(opts.errors, r.w.errs)],
     ok |-> r.ok, exc |-> r.exc, heap1 |-> r.w.heap, heap |-> done.heap, log |-> done.log,
     errs |-> r.w.errs, coes |-> r.w.coes]))))

(* kind: "result" for {value, errors}, "value" for the bare value,          *)
(* "TypeAssertionError" for the thrown mismatch, "exception" when the       *)
(* validator itself threw                                                   *)
as(value, validator, opts, heap0) ==
  Let(Alloc(heap0, Box(value)), LAMBDA state :
  Let(Run(validator, value,
          [p |-> NoPath, errorsOn |-> opts.errors, coercionsOn |-> opts.coerce,
           coercion |-> IF opts.coerce THEN CoercionFnOf(state.ref.n, Str("value")) ELSE Unbound],
          [heap |-> IF opts.coerce THEN state.heap ELSE heap0, errs |-> <<>>, coes |-> <<>>,
           log |-> <<>>]), LAMBDA r :
  Let(IF opts.coerce /\ r.ok /\ ~r.exc
      THEN asCommit(r.w.heap, r.w.coes, 1, r.w.log)
      ELSE [heap |-> r.w.heap, log |-> r.w.log], LAMBDA done :
  Let(IF opts.coerce THEN GetProp(done.heap, state.ref.n, Str("value")) ELSE value, LAMBDA result :
    [ret |-> IF r.exc THEN [kind |-> "exception", value |-> Undef, errors |-> NoErrors, message |-> ""]
             ELSE IF r.ok
             THEN [kind |-> IF opts.throws THEN "value" ELSE "result", value |-> result,
                   errors |-> NoErrors, message |-> ""]
             ELSE IF ~opts.throws
             THEN [kind |-> "result", value |-> Undef, errors |-> ErrorsOf(opts.errors, r.w.errs),
                   message |-> ""]
             ELSE [kind |-> "TypeAssertionError", value |-> Undef, errors |-> NoErrors,
                   message |-> TypeAssertionError(opts.errors, r.w.errs)],
     ok |-> r.ok, exc |-> r.exc, heap1 |-> r.w.heap, heap |-> done.heap, log |-> done.log,
     errs |-> r.w.errs, coes |-> r.w.coes]))))

(***************************************************************************)
(* The validators and inputs the program is exercised with.                *)
(***************************************************************************)
FooObject(spec) == V_isObject(<<"foo">>, <<spec>>, NoSpec)
KeyPayload == V_isPayload(V_isString)

Validators ==
  { V_isString, V_isBoolean, V_isNumber,
    V_isArray(V_isBoolean, NoDelimiter),
    FooObject(V_isBoolean),
    FooObject(V_isArray(V_isBoolean, ",")),
    FooObject(V_isSet(V_isBoolean, NoDelimiter)),
    FooObject(V_isTuple(<<V_isBoolean, V_isString>>, ",")),
    V_isObject(<<"foo">>, <<V_isString>>, V_isRecord(V_isBoolean, NoSpec)),
    V_isTuple(<<V_isString, V_isNumber>>, NoDelimiter),
    V_isRecord(V_isBoolean, NoSpec),
    V_isRecord(V_isNumber, NoSpec),
    V_isRecord(V_isOneOf(<<V_isBoolean>>, FALSE), NoSpec),
    V_isOneOf(<<V_isString, V_isBoolean>>, FALSE),
    V_isOneOf(<<V_isNumber, V_isBoolean>>, FALSE),
    V_isOneOf(<<V_isNumber, V_isBoolean>>, TRUE),
    V_isOneOf(<<V_isNumber, V_isString>>, TRUE),
    V_isOneOf(<<FooObject(V_isNumber), V_isRecord(V_isNumber, NoSpec)>>, FALSE),
    V_isOneOf(<<FooObject(V_isNumber), V_isRecord(V_isNumber, NoSpec)>>, TRUE),
    V_isArray(V_isOneOf(<<V_isNumber, V_isBoolean>>, FALSE), NoDelimiter),
    V_cascade(V_isNumber, <<V_isInteger, V_isAtLeast(5)>>),
    V_isRecord(V_cascade(V_isNumber, <<V_isAtLeast(5)>>), NoSpec),
    V_cascade(V_isArray(V_isNumber, NoDelimiter), <<V_hasMinLength(2)>>),
    V_cascade(V_isRecord(V_isNumber, NoSpec), <<V_isUpperCase>>),
    V_cascade(V_isOptional(V_isArray(V_isNumber, NoDelimiter)), <<V_hasMinLength(1)>>),
    V_cascade(V_isArray(V_isRecord(V_isUnknown, KeyPayload), NoDelimiter), <<V_hasMinLength(1)>>),
    V_cascade(V_isArray(V_isRecord(V_isUnknown, KeyPayload), NoDelimiter), <<V_hasMinLength(2)>>),
    V_cascade(V_cascade(V_isArray(V_isNumber, NoDelimiter), <<V_hasMinLength(1)>>), <<V_hasMinLength(2)>>),
    V_isObject(<<>>, <<>>, NoSpec),
    V_isRecord(V_isBoolean, V_isString),
    FooObject(V_isString),
    V_isArray(V_isNumber, NoDelimiter),
    FooObject(V_isSet(V_isBoolean, ",")),
    V_isDate,
    V_isUnknown,
    V_isOptional(V_isUnknown),
    V_isNullable(V_isUnknown),
    V_cascade(V_isString, <<V_isJSON(V_isBoolean)>>),
    V_isMap(V_isString, V_isBoolean),
    V_isMap(V_isNumber, V_isBoolean),
    V_isObject(<<"foo", "bar">>, <<V_isBoolean, V_isSet(V_isBoolean, NoDelimiter)>>, NoSpec),
    V_isOneOf(<<>>, FALSE)
  }

Inputs ==
  { Str("true"), Str("1"), Str("42"), Str("foo"), Str("1e2"), Num(1), Num(42), Bool(TRUE), Undef, Null,
    TArr(<<Str("true")>>),
    TArr(<<Str("true"), Str("foo")>>),
    TArr(<<Str("7"), Str("1")>>),
    TArr(<<Str("1"), Str("true")>>),
    TArr(<<Str("1")>>),
    TArr(<<Str("foo"), Str("42")>>),
    TArr(<<TArr(<<Str("val"), Str("42")>>)>>),
    TArr(<<TObj(<<"\"a\"", "\"b\"">>, <<Num(1), Num(2)>>)>>),
    TArr(<<TObj(<<"\"a\"">>, <<Num(1)>>)>>),
    TObj(<<"foo">>, <<Str("true")>>),
    TObj(<<"foo">>, <<Str("42")>>),
    TObj(<<"foo">>, <<Str("true,false")>>),
    TObj(<<"foo">>, <<Str("true,foo")>>),
    TObj(<<"foo">>, <<TArr(<<Str("true"), Bool(FALSE)>>)>>),
    TObj(<<"foo">>, <<TSet(<<Str("true"), Bool(FALSE)>>)>>),
    TObj(<<"foo", "bar">>, <<Str("hello"), Str("1")>>),
    TObj(<<"foo", "bar">>, <<Str("42"), Str("1")>>),
    TObj(<<"val">>, <<Str("42")>>),
    TObj(<<"val", "low">>, <<Str("42"), Str("1")>>),
    TObj(<<"__proto__">>, <<Str("true")>>),
    TObj(<<"foo", "constructor">>, <<Str("true"), Str("true")>>),
    TArr(<<TArr(<<Str("__proto__"), Str("true")>>)>>),
    TObj(<<>>, <<>>),
    TObj(<<"foo", "bar">>, <<Str(""), Str("")>>),
    TObj(<<"foo", "foo bar">>, <<Str(""), Str("")>>),
    TArr(<<Str("foo"), Num(42)>>),
    TArr(<<Str("foo"), Num(42), Bool(TRUE)>>),
    TObj(<<"foo bar">>, <<Str("true")>>),
    Str("True"),
    Str("false"),
    Str("False"),
    Str("0"),
    Num(0),
    Frac(42, ".42"),
    Frac(0, ".0001"),
    Num(MAX_SAFE_INTEGER),
    Str("42.42"),
    Str("1970-01-01T00:00:42Z"),
    TObj(<<"42">>, <<Str("true")>>),
    TMap(<<Str("foo"), Str("true")>>)
  }

(***************************************************************************)
(* The program as a state machine: a caller validates one input, either by *)
(* calling the validator itself (and then invoking coercion entries as it  *)
(* pleases) or through as().                                               *)
(***************************************************************************)
MaxInvocations == 3

VARIABLES pc, call, root, heap0, heap1, heap, outcome, errors, coercions, log, returned, trail

vars == <<pc, call, root, heap0, heap1, heap, outcome, errors, coercions, log, returned, trail>>

NoCall == [validator |-> NoSpec, input |-> Undef, how |-> "none",
           opts |-> [errors |-> FALSE, coerce |-> FALSE, throws |-> FALSE]]
NoOutcome == [ok |-> FALSE, exc |-> FALSE,
              ret |-> [kind |-> "none", value |-> Undef, errors |-> NoErrors, message |-> ""]]
NoClosure == [c |-> "none", tgt |-> 0, key |-> Undef, v |-> Undef, orig |-> Undef, gen |-> NoGen]

Init ==
  /\ pc = "idle"
  /\ call = NoCall
  /\ root = Undef
  /\ heap0 = <<>>
  /\ heap1 = <<>>
  /\ heap = <<>>
  /\ outcome = NoOutcome
  /\ errors = <<>>
  /\ coercions = <<>>
  /\ log = <<>>
  /\ returned = <<>>
  /\ trail = <<>>

(* validator(value, {errors?, coercions?}) called by the user *)
CallValidator(V, input, opts) ==
  /\ pc = "idle"
  /\ \E a \in {AllocT(<<>>, input)} :
       \E r \in {Run(V, a.ref,
                    [p |-> NoPath, errorsOn |-> opts.errors, coercionsOn |-> opts.coerce,
                     coercion |-> Unbound],
                    [heap |-> a.heap, errs |-> <<>>, coes |-> <<>>, log |-> <<>>])} :
         /\ pc' = "called"
         /\ call' = [validator |-> V, input |-> input, how |-> "direct", opts |-> opts]
         /\ root' = a.ref
         /\ heap0' = a.heap
         /\ heap1' = r.w.heap
         /\ heap' = r.w.heap
         /\ outcome' = [NoOutcome EXCEPT !.ok = r.ok, !.exc = r.exc]
         /\ errors' = r.w.errs
         /\ coercions' = r.w.coes
         /\ log' = r.w.log
         /\ returned' = [i \in 1..Len(r.w.coes) |-> NoClosure]
         /\ trail' = <<>>

(* as(value, validator, opts) *)
CallAs(V, input, opts) ==
  /\ pc = "idle"
  /\ \E a \in {AllocT(<<>>, input)} :
       \E r \in {as(a.ref, V, opts, a.heap)} :
         /\ pc' = "returned"
         /\ call' = [validator |-> V, input |-> input, how |-> "as", opts |-> opts]
         /\ root' = a.ref
         /\ heap0' = a.heap
         /\ heap1' = r.heap1
         /\ heap' = r.heap
         /\ outcome' = [ok |-> r.ok, exc |-> r.exc, ret |-> r.ret]
         /\ errors' = r.errs
         /\ coercions' = r.coes
         /\ log' = r.log
         /\ returned' = <<>>
         /\ trail' = <<>>

(* the slot a closure writes: the original object's for an `extra` bag *)
SlotOf(h, cl) ==
  IF h[cl.tgt].fwd # 0 THEN GetProp(h, h[cl.tgt].fwd, cl.key) ELSE GetProp(h, cl.tgt, cl.key)

(* the caller invokes the apply closure of entry i: const undo = apply() *)
ApplyEntry(i) ==
  /\ pc = "called"
  /\ i \in 1..Len(coercions)
  /\ Len(trail) < MaxInvocations
  /\ LET c == Invoke(heap, coercions[i].fn)
     IN /\ heap' = c.heap
        /\ returned' = [returned EXCEPT ![i] = c.ret]
        /\ trail' = Append(trail, [i |-> i, what |-> "apply", before |-> SlotOf(heap, coercions[i].fn),
                                   after |-> SlotOf(c.heap, coercions[i].fn),
                                   deep |-> Deep(c.heap, SlotOf(c.heap, coercions[i].fn))])
  /\ UNCHANGED <<pc, call, root, heap0, heap1, outcome, errors, coercions, log>>

(* the caller invokes the closure the last invocation for entry i returned *)
InvokeReturned(i) ==
  /\ pc = "called"
  /\ i \in 1..Len(coercions)
  /\ returned[i] # NoClosure
  /\ Len(trail) < MaxInvocations
  /\ LET c == Invoke(heap, returned[i])
     IN /\ heap' = c.heap
        /\ returned' = [returned EXCEPT ![i] = c.ret]
        /\ trail' = Append(trail, [i |-> i, what |-> "returned", before |-> SlotOf(heap, returned[i]),
                                   after |-> SlotOf(c.heap, returned[i]),
                                   deep |-> Deep(c.heap, SlotOf(c.heap, returned[i]))])
  /\ UNCHANGED <<pc, call, root, heap0, heap1, outcome, errors, coercions, log>>

Flags == [errors : BOOLEAN, coerce : BOOLEAN, throws : {FALSE}]
AsFlags == [errors : BOOLEAN, coerce : BOOLEAN, throws : BOOLEAN]

Next ==
  \/ \E V \in Validators, input \in Inputs, opts \in Flags : CallValidator(V, input, opts)
  \/ \E V \in Validators, input \in Inputs, opts \in AsFlags : CallAs(V, input, opts)
  \/ \E i \in 1..Len(coercions) : ApplyEntry(i)
  \/ \E i \in 1..Len(coercions) : InvokeReturned(i)

Spec == Init /\ [][Next]_vars

TypeOK == pc \in {"idle", "called", "returned"}

(***************************************************************************)
(* Properties.                                                             *)
(***************************************************************************)
InputAddresses == 1..Len(heap0)
InputUntouched == \A a \in InputAddresses : heap[a] = heap0[a]
Applies == SelectSeq(log, LAMBDA ev : ev.e = "apply")

(* C1: right after a validator called with a coercion list returns, true   *)
(* or false, every object of the input is as it was before the call: no    *)
(* property, element or member has been added, removed or replaced.        *)
C1_ValidationLeavesInputUntouched ==
  (pc = "called" /\ call.opts.coerce /\ ~outcome.exc /\ trail = <<>>) => InputUntouched

(* C2: when as() with coerce enabled does not validate, no recorded entry  *)
(* has been invoked by it, the input is unmodified, and it returns         *)
(* {value: undefined, errors} or throws TypeAssertionError.                *)
C2_FailedAsLeavesInputUntouched ==
  (pc = "returned" /\ call.opts.coerce /\ ~outcome.ok /\ ~outcome.exc) =>
    /\ Applies = <<>>
    /\ InputUntouched
    /\ outcome.ret.value = Undef
    /\ outcome.ret.kind = IF call.opts.throws THEN "TypeAssertionError" ELSE "result"
    /\ ~call.opts.throws =>
          outcome.ret.errors = IF call.opts.errors THEN [k |-> "list", list |-> errors]
                                                  ELSE [k |-> "true", list |-> <<>>]

(* C3: when as() with coerce enabled validates, it invokes every entry of  *)
(* the recorded coercion list exactly once and in list order, and returns  *)
(* what the top-level slot holds after those commits; {foo: "true"} under  *)
(* isObject({foo: isBoolean()}) comes back as the same object holding      *)
(* {foo: true}, and "42" under isNumber() comes back as 42.                *)
C3_AsCommitsInListOrder ==
  (pc = "returned" /\ call.opts.coerce /\ outcome.ok /\ ~outcome.exc) =>
    /\ Len(Applies) = Len(coercions)
    /\ \A i \in 1..Len(coercions) : Applies[i].i = i /\ Applies[i].fn = coercions[i].fn
    /\ heap = ApplyAll(heap1, coercions, 1, <<>>).heap
    /\ outcome.ret.value = GetProp(heap, Len(heap0) + 1, Str("value"))
    /\ outcome.ret.kind = IF call.opts.throws THEN "value" ELSE "result"
    /\ (call.validator = FooObject(V_isBoolean) /\ call.input = TObj(<<"foo">>, <<Str("true")>>)) =>
          /\ outcome.ret.value = root
          /\ Deep(heap, outcome.ret.value) = TObj(<<"foo">>, <<Bool(TRUE)>>)
    /\ (call.validator = V_isNumber /\ call.input = Str("42")) => outcome.ret.value = Num(42)

(* as() committed at least two entries and the commits changed the input *)
C3_Witness ==
  /\ pc = "returned" /\ call.opts.coerce /\ outcome.ok /\ ~outcome.exc
  /\ Len(coercions) >= 2
  /\ ~InputUntouched

Pairs(first, second) ==
  { k \in 1..(Len(trail) - 1) :
      trail[k].what = first /\ trail[k + 1].what = second /\ trail[k + 1].i = trail[k].i }

(* the entry invoked at position k of the trail had not been invoked before *)
FirstUse(k) == \A j \in 1..(k - 1) : trail[j].i # trail[k].i

(* C4: invoking an entry's apply closure once and then the closure it      *)
(* returned leaves the slot holding exactly the value it held right before *)
(* apply, for makeCoercionFn closures and for makeLazyCoercionFn commit /  *)
(* revert; apply writes the proposed value and revert the value the entry  *)
(* was created with.                                                       *)
C4_ApplyThenReturnedRestoresSlot ==
  \A k \in Pairs("apply", "returned") :
    /\ FirstUse(k) => trail[k + 1].after = trail[k].before
    /\ coercions[trail[k].i].fn.c = "bind" => trail[k].after = coercions[trail[k].i].fn.v
    /\ coercions[trail[k].i].fn.c = "commit" =>
         trail[k + 1].after = coercions[trail[k].i].fn.orig

(* a lazy entry was committed, which replaced the slot, and then reverted *)
C4_Witness ==
  \E k \in Pairs("apply", "returned") :
    FirstUse(k) /\ coercions[trail[k].i].fn.c = "commit" /\ trail[k].after # trail[k].before

(* a makeCoercionFn entry was applied, which replaced the slot, and undone *)
C4_WitnessBound ==
  \E k \in Pairs("apply", "returned") :
    coercions[trail[k].i].fn.c = "bind" /\ trail[k].after # trail[k].before

(* C5 as stated: invoking the same apply closure twice leaves the slot     *)
(* holding the value it held before the first invocation.                  *)
C5_ApplyTwiceReverts ==
  \A k \in Pairs("apply", "apply") : trail[k + 1].after = trail[k].before

(* C5 amended: invoking the same apply closure a second time re-applies    *)
(* the coercion; the slot holds the proposed value again (an equal freshly *)
(* generated one for a lazy entry), not the value from before.             *)
C5_ApplyTwiceReapplies ==
  \A k \in Pairs("apply", "apply") :
    /\ trail[k + 1].deep = trail[k].deep
    /\ coercions[trail[k].i].fn.c = "bind" =>
          trail[k].after = coercions[trail[k].i].fn.v /\ trail[k + 1].after = trail[k].after

(* an entry whose proposed value differs from the slot was applied twice *)
C5_Witness ==
  \E k \in Pairs("apply", "apply") : trail[k].after # trail[k].before

OneOfEvents == { k \in 1..Len(log) : log[k].e = "isOneOf" }
Matching(ev) == { i \in 1..Len(ev.tried) : ev.tried[i].ok }
FirstMatching(ev) == CHOOSE i \in Matching(ev) : \A j \in Matching(ev) : i <= j
BranchPath(ev, i) == PathOr(ev.st.p, ".") \o "#" \o ToString(i)
(* branch i of the event's isOneOf called on the event's value, on lists of its own *)
Branch(ev, i) ==
  Run(ev.V.specs[i], ev.value, [ev.st EXCEPT !.p = BranchPath(ev, i)],
      [heap |-> ev.tried[i].heap, errs |-> <<>>, coes |-> <<>>, log |-> <<>>])
(* the branches called are the first ones of the list, in list order *)
TriedInOrder(ev) ==
  /\ Len(ev.tried) <= Len(ev.V.specs)
  /\ \A i \in 1..Len(ev.tried) :
        /\ Branch(ev, i).ok = ev.tried[i].ok
        /\ Branch(ev, i).w.errs = ev.tried[i].errs
        /\ Branch(ev, i).w.coes = ev.tried[i].coes

(* C6: a non-exclusive isOneOf that accepts has called the branches in     *)
(* order up to the first one that matches and no further; the parent's     *)
(* coercion list has grown by exactly that branch's coercions and the      *)
(* parent's error list is unchanged, so nothing of the earlier failing     *)
(* branches shows in the parent's lists.                                   *)
C6_FirstMatchWins ==
  \A k \in OneOfEvents :
    LET ev == log[k] IN
    (~ev.V.exclusive /\ ev.ok) =>
      /\ TriedInOrder(ev)
      /\ Matching(ev) = {Len(ev.tried)}
      /\ ev.coesOut = ev.coesIn \o ev.tried[Len(ev.tried)].coes
      /\ ev.errsOut = ev.errsIn

(* a second branch matched after a first one that failed with an error and *)
(* a proposed coercion, under a parent that already holds errors or        *)
(* coercions                                                               *)
C6_Witness ==
  \E k \in OneOfEvents :
    LET ev == log[k] IN
    /\ ~ev.V.exclusive /\ ev.ok /\ Len(ev.tried) = 2
    /\ ev.tried[1].errs # <<>> /\ ev.tried[1].coes # <<>> /\ ev.tried[2].coes # <<>>

(* a nested non-exclusive isOneOf matched while the parent's lists were not empty *)
C6_WitnessNested ==
  \E k \in OneOfEvents :
    LET ev == log[k] IN
    /\ ~ev.V.exclusive /\ ev.ok /\ Len(ev.tried) = 2 /\ ev.tried[2].coes # <<>>
    /\ (ev.errsIn # <<>> \/ ev.coesIn # <<>>)

MatchesOf(ev) ==
  SelectSeq([i \in 1..Len(ev.tried) |->
               [t |-> i, subCoercions |-> ev.tried[i].coes, ok |-> ev.tried[i].ok]],
            LAMBDA m : m.ok)
(* the same isOneOf without the exclusive option, called on the event's value *)
NonExclusive(ev) ==
  Run([ev.V EXCEPT !.exclusive = FALSE], ev.value, ev.st,
      [heap |-> ev.tried[1].heap, errs |-> <<>>, coes |-> <<>>, log |-> <<>>])

(* C7: an exclusive isOneOf calls every branch and accepts exactly when    *)
(* one branch matches; when two or more match it returns false, pushes the *)
(* error `Expected to match exactly a single predicate` at the parent's    *)
(* path and adds no branch's coercion to the parent's list, while the same *)
(* isOneOf without exclusive accepts that value with the first matching    *)
(* branch's coercions.                                                     *)
C7_ExclusiveNeedsSingleMatch ==
  \A k \in OneOfEvents :
    LET ev == log[k] IN
    ev.V.exclusive =>
      /\ TriedInOrder(ev)
      /\ Len(ev.tried) = Len(ev.V.specs)
      /\ ev.ok <=> Cardinality(Matching(ev)) = 1
      /\ Cardinality(Matching(ev)) >= 2 =>
            /\ ~ev.ok
            /\ ev.coesOut = ev.coesIn
            /\ ev.errsOut =
                  IF ev.st.errorsOn
                  THEN Append(ev.errsIn,
                              PathOr(ev.st.p, ".")
                                \o ": Expected to match exactly a single predicate (matched "
                                \o JoinMatches(MatchesOf(ev), ev.st.coercionsOn, 1, "") \o ")")
                  ELSE ev.errsIn
            /\ NonExclusive(ev).ok
            /\ NonExclusive(ev).w.coes = ev.tried[FirstMatching(ev)].coes
            /\ NonExclusive(ev).w.errs = <<>>

(* two branches of an exclusive isOneOf matched, each proposing a coercion, *)
(* with an error sink                                                       *)
C7_Witness ==
  \E k \in OneOfEvents :
    LET ev == log[k] IN
    /\ ev.V.exclusive /\ Cardinality(Matching(ev)) >= 2 /\ ev.st.errorsOn
    /\ \A i \in Matching(ev) : ev.tried[i].coes # <<>>

(* C8: when no branch of isOneOf matches and there is an error sink, the   *)
(* errors appended to the parent's sink are exactly the first error of     *)
(* each branch, in branch order, each reported under the path              *)
(* `<parent path or .>#<1-based index>`, extended by the branch's own      *)
(* sub-path where it has one.                                              *)
C8_NoMatchReportsFirstErrors ==
  /\ \A k \in OneOfEvents :
       LET ev == log[k] IN
       (Matching(ev) = {} /\ ev.st.errorsOn) =>
         /\ ~ev.ok
         /\ TriedInOrder(ev)
         /\ Len(ev.tried) = Len(ev.V.specs)
         /\ \A i \in 1..Len(ev.tried) : Branch(ev, i).w.errs # <<>>
         /\ ev.errsOut = ev.errsIn \o [i \in 1..Len(ev.tried) |-> Branch(ev, i).w.errs[1]]
         /\ ev.coesOut = ev.coesIn
  /\ (pc = "called" /\ call.opts.errors /\ ~call.opts.coerce) =>
       /\ (call.validator = V_isOneOf(<<V_isString, V_isBoolean>>, FALSE) /\ call.input = Num(42)) =>
             errors = <<".#1: Expected a string (got 42)", ".#2: Expected a boolean (got 42)">>
       /\ (call.validator = V_isRecord(V_isOneOf(<<V_isBoolean>>, FALSE), NoSpec)
             /\ call.input = TObj(<<"val">>, <<Str("42")>>)) =>
             errors = <<".val#1: Expected a boolean (got \"42\")">>
       /\ (call.validator = V_isOneOf(<<FooObject(V_isNumber), V_isRecord(V_isNumber, NoSpec)>>, FALSE)
             /\ call.input = TObj(<<"foo", "bar">>, <<Str("hello"), Str("1")>>)) =>
             errors = <<".#1.foo: Expected a number (got \"hello\")",
                        ".#2.foo: Expected a number (got \"hello\")">>

(* no branch matched and a branch had reported more than one error *)
C8_Witness ==
  \E k \in OneOfEvents :
    LET ev == log[k] IN
    /\ Matching(ev) = {} /\ ev.st.errorsOn /\ Len(ev.tried) = 2
    /\ \E i \in 1..2 : Len(ev.tried[i].errs) >= 2

FollowupEvents == { k \in 1..Len(log) : log[k].e = "followup" }
CascadeEvents == { k \in 1..Len(log) : log[k].e = "cascade" }
(* the value the lead's coercions produce once committed: what as() returns *)
PostCoercion(ev) ==
  LET r == as(ev.value, ev.lead, [errors |-> FALSE, coerce |-> TRUE, throws |-> FALSE], ev.heap0)
  IN Deep(r.heap, r.ret.value)
(* the lead spec of the event's cascade called as cascade calls it *)
Lead(ev) ==
  LET context == Alloc(ev.heapIn, Box(ev.value))
  IN Run(ev.V.spec, ev.value,
         [ev.st EXCEPT !.coercion = IF ev.st.coercionsOn
                                    THEN CoercionFnOf(context.ref.n, Str("value")) ELSE Unbound],
         [heap |-> context.heap, errs |-> <<>>, coes |-> <<>>, log |-> <<>>])
Replacement(ev) ==
  IF ev.contextValue # ev.value
  THEN <<[p |-> PathOr(ev.st.p, "."), fn |-> Bind(ev.st.coercion, ev.contextValue)]>>
  ELSE <<>>

(* C9: in coercion mode every followup of cascade is called with the value *)
(* the lead's coercions produce, and when cascade returns, whether the     *)
(* followups passed, one failed or one raised, no provisional commit is    *)
(* still in effect: every object is as it was when cascade was called.     *)
C9_FollowupsSeeCoercedValueThenUndone ==
  /\ \A k \in FollowupEvents :
       log[k].st.coercionsOn => log[k].seen = PostCoercion(log[k])
  /\ \A k \in CascadeEvents :
       LET ev == log[k] IN
       (ev.st.coercionsOn /\ ev.leadOk) =>
         \A a \in 1..Len(ev.heapIn) : ev.heapOut[a] = ev.heapIn[a]

UnsafeNames == {"__proto__", "constructor"}
(* the keys of an object literal, or of an array of [key, value] pairs, that are unsafe *)
UnsafeKeysOf(input) ==
  CASE input.t = "obj" -> { k \in UnsafeNames : IndexOf(input.keys, k) # 0 }
    [] input.t = "arr" ->
         { k \in UnsafeNames :
             \E i \in 1..Len(input.items) :
               input.items[i].t = "arr" /\ Len(input.items[i].items) = 2
                 /\ input.items[i].items[1] = Str(k) }
    [] OTHER -> {}
(* a call of isRecord or isObject that returned *)
RecordOrObjectCall ==
  /\ pc \in {"called", "returned"}
  /\ call.validator.v \in {"isRecord", "isObject"}
  /\ ~outcome.exc

(* C11: isRecord and isObject return false whenever the input has a key    *)
(* __proto__ or constructor, for isRecord in coercion mode also when the   *)
(* input is an array of [key, value] pairs with such a key, whatever the   *)
(* mode and the options; with an error sink the error of an unsafe key of  *)
(* an object is `<path of the key>: Unsafe property name`.                 *)
C11_UnsafeKeysRejected ==
  (/\ RecordOrObjectCall
   /\ UnsafeKeysOf(call.input) # {}
   /\ call.input.t = "arr" => (call.validator.v = "isRecord" /\ call.opts.coerce)) =>
    /\ ~outcome.ok
    /\ (call.opts.errors /\ call.input.t = "obj") =>
          \A k \in UnsafeKeysOf(call.input) :
            \E i \in 1..Len(errors) : errors[i] = "." \o k \o ": Unsafe property name"

(* C11 for inputs that are objects: the part of the claim the key loops    *)
(* of isRecord and isObject implement                                      *)
C11_UnsafeObjectKeysRejected ==
  (RecordOrObjectCall /\ call.input.t = "obj" /\ UnsafeKeysOf(call.input) # {}) =>
    /\ ~outcome.ok
    /\ call.opts.errors =>
          \A k \in UnsafeKeysOf(call.input) :
            \E i \in 1..Len(errors) : errors[i] = "." \o k \o ": Unsafe property name"

(* the keys of the model that are identifiers *)
IdentifierKeys == {"foo", "bar", "val", "low", "__proto__", "constructor"}
(* the path of a key of the value validated at the root *)
RootKeyPath(key) ==
  IF key \in IdentifierKeys THEN "." \o key ELSE ".[" \o ToString(key) \o "]"
InputIsObject == root.t = "ref"
OwnKeys == IF InputIsObject THEN ObjectKeys(heap0, root.n) ELSE <<>>
OwnKeySet == { OwnKeys[i] : i \in 1..Len(OwnKeys) }
(* a top-level call of isObject without `extra` that returned *)
ObjectCall ==
  /\ pc \in {"called", "returned"}
  /\ call.validator.v = "isObject" /\ call.validator.extraSpec = NoSpec
  /\ ~outcome.exc
DeclaredKeySet == { call.validator.specKeys[i] : i \in 1..Len(call.validator.specKeys) }
(* the validator declared for key called on the input's own value for it *)
Declared(key) ==
  Run(PropSpec(call.validator, key), GetProp(heap0, root.n, Str(key)),
      [p |-> RootKeyPath(key), errorsOn |-> call.opts.errors, coercionsOn |-> call.opts.coerce,
       coercion |-> CoercionFnOf(root.n, Str(key))],
      [heap |-> heap0, errs |-> <<>>, coes |-> <<>>, log |-> <<>>])

(* C12: isObject(props) without extra returns true iff the input is a      *)
(* non-null object, every declared key's validator accepts the input's own *)
(* value for that key (undefined when absent) and the input has no own key *)
(* outside props; with an error sink each undeclared key (other than the   *)
(* unsafe names, reported as C11 says) yields the error `<path of the      *)
(* key>: Extraneous property (got <printable>)`.                           *)
C12_ObjectAcceptsExactlyDeclared ==
  ObjectCall =>
    /\ outcome.ok <=> /\ InputIsObject
                      /\ \A key \in DeclaredKeySet : Declared(key).ok
                      /\ OwnKeySet \subseteq DeclaredKeySet
    /\ (call.opts.errors /\ InputIsObject) =>
          \A key \in (OwnKeySet \ DeclaredKeySet) \ UnsafeNames :
            \E i \in 1..Len(errors) :
              errors[i] = RootKeyPath(key) \o ": Extraneous property (got "
                            \o getPrintable(heap0, GetProp(heap0, root.n, Str(key))) \o ")"
    /\ (pc = "called" /\ call.opts.errors /\ ~call.opts.coerce
          /\ call.validator = FooObject(V_isString)) =>
          /\ call.input = TObj(<<>>, <<>>) =>
                errors = <<".foo: Expected a string (got undefined)">>
          /\ call.input = TObj(<<"foo", "bar">>, <<Str(""), Str("")>>) =>
                errors = <<".bar: Extraneous property (got an empty string)">>
          /\ call.input = TObj(<<"foo", "foo bar">>, <<Str(""), Str("")>>) =>
                errors = <<".[\"foo bar\"]: Extraneous property (got an empty string)">>

(* isObject without extra refused, with an error sink, an object whose     *)
(* declared keys all validate and that has an undeclared key               *)
C12_Witness ==
  /\ ObjectCall /\ call.opts.errors /\ InputIsObject /\ ~outcome.ok
  /\ DeclaredKeySet # {}
  /\ \A key \in DeclaredKeySet : Declared(key).ok
  /\ (OwnKeySet \ DeclaredKeySet) \ UnsafeNames # {}

(* isObject without extra accepted an object in coercion mode *)
C12_WitnessAccepted ==
  ObjectCall /\ outcome.ok /\ call.opts.coerce /\ coercions # <<>>

(* a top-level call of isTuple(specs) that returned *)
TupleCall ==
  /\ pc \in {"called", "returned"}
  /\ call.validator.v = "isTuple" /\ call.validator.delimiter = NoDelimiter
  /\ ~outcome.exc
InputIsArray == root.t = "ref" /\ heap0[root.n].k = "array"
InputLength == IF InputIsArray THEN Len(heap0[root.n].vals) ELSE 0
(* the validator v called on element index (from 0) of the input array *)
Element(v, index) ==
  Run(v, heap0[root.n].vals[index + 1],
      [p |-> ".[" \o ToString(index) \o "]", errorsOn |-> call.opts.errors,
       coercionsOn |-> call.opts.coerce, coercion |-> CoercionFnOf(root.n, Num(index))],
      [heap |-> heap0, errs |-> <<>>, coes |-> <<>>, log |-> <<>>])
(* the elements a tuple validator has a spec for *)
Visited == 0..((IF InputLength < Len(call.validator.spec) THEN InputLength
                ELSE Len(call.validator.spec)) - 1)

(* C13: isTuple(specs) returns true iff the input is an array of exactly   *)
(* specs.length elements whose element i is accepted by specs[i]; a longer *)
(* or shorter array fails even when every visited element validates, with  *)
(* and without an error sink, and with a sink the length error is reported.*)
C13_TupleNeedsExactLength ==
  TupleCall =>
    /\ outcome.ok <=> /\ InputIsArray
                      /\ InputLength = Len(call.validator.spec)
                      /\ \A t \in Visited : Element(call.validator.spec[t + 1], t).ok
    /\ (InputIsArray /\ InputLength # Len(call.validator.spec)) =>
          /\ ~outcome.ok
          /\ call.opts.errors =>
                errors[1] = ".: Expected to have a length of exactly "
                              \o ToString(Len(call.validator.spec)) \o " elements (got "
                              \o ToString(InputLength) \o ")"

(* a longer array whose visited elements all validate was refused without  *)
(* an error sink                                                           *)
C13_Witness ==
  /\ TupleCall /\ InputIsArray /\ ~call.opts.errors
  /\ InputLength > Len(call.validator.spec)
  /\ \A t \in Visited : Element(call.validator.spec[t + 1], t).ok
  /\ ~outcome.ok

(* a shorter array whose visited elements all validate was refused with an *)
(* error sink                                                              *)
C13_WitnessShorter ==
  /\ TupleCall /\ InputIsArray /\ call.opts.errors
  /\ InputLength < Len(call.validator.spec) /\ InputLength > 0
  /\ \A t \in Visited : Element(call.validator.spec[t + 1], t).ok
  /\ ~outcome.ok

ArrayEvents == { k \in 1..Len(log) : log[k].e = "isArray" }
(* the element visits of the isArray call that ended at position k *)
ElementsOf(k) ==
  { j \in (log[k].from + 1)..(k - 1) :
      log[j].e = "element" /\ log[j].arr = log[k].arr /\ log[j].st = log[k].st }
VisitedOf(k) == { log[j].t : j \in ElementsOf(k) }
FailedOf(k) == { log[j].t : j \in { i \in ElementsOf(k) : ~log[i].ok } }
FirstFailedOf(k) == CHOOSE t \in FailedOf(k) : \A u \in FailedOf(k) : t <= u
(* the item validator called on element t under the path <parent>[<t>] *)
Item(k, t) ==
  LET j == CHOOSE i \in ElementsOf(k) : log[i].t = t
  IN Run(log[k].V.spec, log[j].value,
         [log[k].st EXCEPT !.p = PathOr(log[k].st.p, ".") \o "[" \o ToString(t) \o "]",
                           !.coercion = CoercionFnOf(log[k].arr, Num(t))],
         [heap |-> log[j].heap, errs |-> <<>>, coes |-> <<>>, log |-> <<>>])
RECURSIVE ItemErrorsFrom(_, _)
(* the errors of the elements t, t + 1, ... in index order *)
ItemErrorsFrom(k, t) ==
  IF t >= log[k].T THEN <<>> ELSE Item(k, t).w.errs \o ItemErrorsFrom(k, t + 1)

(* C14: without an error sink the element loop of isArray stops at the     *)
(* first failing element and visits no later one; with an error sink every *)
(* element is visited and the sink receives the errors of every failing    *)
(* element in index order, each reported under the path <parent>[<index>]. *)
C14_ArrayStopsOrCollects ==
  /\ \A k \in ArrayEvents :
       /\ Cardinality(ElementsOf(k)) = Cardinality(VisitedOf(k))
       /\ log[k].ok <=> FailedOf(k) = {}
       /\ ~log[k].st.errorsOn =>
            VisitedOf(k) = IF FailedOf(k) = {} THEN 0..(log[k].T - 1) ELSE 0..FirstFailedOf(k)
       /\ log[k].st.errorsOn =>
            /\ VisitedOf(k) = 0..(log[k].T - 1)
            /\ log[k].errsOut = log[k].errsIn \o ItemErrorsFrom(k, 0)
            /\ \A t \in FailedOf(k) : Item(k, t).w.errs # <<>>
  /\ (pc = "called" /\ call.opts.errors /\ call.opts.coerce
        /\ call.validator = FooObject(V_isSet(V_isBoolean, ","))
        /\ call.input = TObj(<<"foo">>, <<Str("true,foo")>>)) =>
       errors = <<".foo[1]: Expected a boolean (got \"foo\")">>
  /\ (pc = "called" /\ call.opts.errors /\ ~call.opts.coerce
        /\ call.validator = V_isArray(V_isNumber, NoDelimiter)
        /\ call.input = TArr(<<Str("foo"), Str("42")>>)) =>
       errors = <<".[0]: Expected a number (got \"foo\")", ".[1]: Expected a number (got \"42\")">>

(* without a sink isArray stopped at a failing element that was not the    *)
(* last one                                                                *)
C14_Witness ==
  \E k \in ArrayEvents :
    /\ ~log[k].st.errorsOn /\ FailedOf(k) # {}
    /\ VisitedOf(k) # 0..(log[k].T - 1)

(* with a sink isArray reported the errors of two failing elements *)
C14_WitnessCollect ==
  \E k \in ArrayEvents :
    log[k].st.errorsOn /\ Cardinality(FailedOf(k)) >= 2

(* the path C15 gives to key under the parent path p (NoPath: no parent path) *)
KeyPath(p, key) ==
  IF key.t = "num" THEN (IF p = NoPath THEN "." ELSE p) \o "[" \o ToString(key.n) \o "]"
  ELSE IF key.s \in IdentifierKeys THEN (IF p = NoPath THEN "" ELSE p) \o "." \o key.s
  ELSE (IF p = NoPath THEN "." ELSE p) \o "[" \o ToString(key.s) \o "]"
(* the object of the input that holds object a, and the key it holds it under *)
HolderOf(a) ==
  CHOOSE h \in [b : InputAddresses, i : 1..10] :
    h.i <= Len(heap0[h.b].vals) /\ heap0[h.b].vals[h.i] = Ref(a)
HeldUnder(h) == IF heap0[h.b].k = "array" THEN Num(h.i - 1) ELSE Str(heap0[h.b].keys[h.i])
RECURSIVE PathOfObject(_)
(* the path of object a of the input, from the root the validator is called on *)
PathOfObject(a) ==
  IF a = root.n THEN NoPath ELSE KeyPath(PathOfObject(HolderOf(a).b), HeldUnder(HolderOf(a)))
RECURSIVE HasBranches(_)
(* V contains an isOneOf, whose branches run under paths of their own *)
HasBranches(V) ==
  CASE V.v = "isOneOf" -> TRUE
    [] V.v \in {"isArray", "isSet", "isRecord", "isPayload", "isOptional", "isNullable", "cascade"} ->
         HasBranches(V.spec)
    [] V.v = "isTuple" -> \E i \in 1..Len(V.spec) : HasBranches(V.spec[i])
    [] V.v = "isObject" ->
         (\E i \in 1..Len(V.props) : HasBranches(V.props[i])) \/ HasBranches(V.extraSpec)
    [] OTHER -> FALSE
(* a call in coercion mode of a validator without branches *)
PathCall ==
  /\ pc \in {"called", "returned"} /\ call.opts.coerce /\ ~outcome.exc
  /\ ~HasBranches(call.validator)
(* the recorded entries whose slot is a slot of the input *)
InputEntries == { i \in 1..Len(coercions) : coercions[i].fn.tgt \in InputAddresses }

(* C15: computeKey gives `<p>[<key>]` for an integer key and               *)
(* `<p>[<JSON-quoted key>]` for a string key that is no identifier, with p *)
(* defaulting to `.`, and `<p>.<key>` for an identifier key, with p        *)
(* defaulting to the empty string: every recorded coercion of a slot of    *)
(* the input carries the path so built from the root down to that slot,    *)
(* and at the root the paths are `.[0]`, `.["foo bar"]` and `.foo`.        *)
C15_PathsOfKeys ==
  PathCall =>
    /\ \A i \in InputEntries :
         coercions[i].p = KeyPath(PathOfObject(coercions[i].fn.tgt), coercions[i].fn.key)
    /\ (call.validator = V_isArray(V_isBoolean, NoDelimiter) /\ call.input = TArr(<<Str("true")>>)) =>
         coercions[1].p = ".[0]"
    /\ (call.validator = V_isRecord(V_isBoolean, NoSpec)
          /\ call.input = TObj(<<"foo bar">>, <<Str("true")>>)) =>
         coercions[1].p = ".[\"foo bar\"]"
    /\ (call.validator = FooObject(V_isBoolean) /\ call.input = TObj(<<"foo">>, <<Str("true")>>)) =>
         coercions[1].p = ".foo"

(* a coercion was recorded for an identifier key at the root and another   *)
(* for a slot below the root                                               *)
C15_Witness ==
  /\ PathCall
  /\ \E i \in InputEntries :
       coercions[i].fn.tgt = root.n /\ coercions[i].fn.key.t = "str"
         /\ coercions[i].fn.key.s \in IdentifierKeys
  /\ \E i \in InputEntries : coercions[i].fn.tgt # root.n

(* a coercion was recorded for an integer key below the root               *)
C15_WitnessIndex ==
  /\ PathCall
  /\ \E i \in InputEntries : coercions[i].fn.key.t = "num" /\ coercions[i].fn.tgt # root.n

(* a coercion was recorded for a key that is no identifier                 *)
C15_WitnessQuoted ==
  /\ PathCall
  /\ \E i \in InputEntries :
       coercions[i].fn.key.t = "str" /\ coercions[i].fn.key.s \notin IdentifierKeys


(* C16: no validator throws, whatever the input and the mode: a call of a  *)
(* validator always returns true or false.                                 *)
C16_ValidatorsNeverThrow ==
  pc = "called" => ~outcome.exc

(* the part of C16 that the code keeps: a validator that is neither isSet  *)
(* nor built with a cascading length or case predicate returns true or     *)
(* false for undefined and null                                            *)
C16_LeafValidatorsNeverThrow ==
  (pc = "called" /\ call.input.t \in {"undef", "null"}
     /\ call.validator.v \notin {"isSet", "cascade"} /\ ~HasBranches(call.validator)) => ~outcome.exc


(* a call of as() without coerce that returned or threw a mismatch *)
PlainAs == pc = "returned" /\ call.how = "as" /\ ~call.opts.coerce /\ ~outcome.exc
RECURSIVE Itemized(_)
(* one `- <error>` line per error, each after a line break *)
Itemized(errs) ==
  IF errs = <<>> THEN ""
  ELSE Itemized(SubSeq(errs, 1, Len(errs) - 1)) \o "\n- " \o errs[Len(errs)]

(* C17: as(value, V) without coerce returns {value: the input itself,      *)
(* errors: undefined} on success, or the bare input when throw is set; on  *)
(* failure it returns {value: undefined, errors: true} without error       *)
(* collection and {value: undefined, errors: the collected strings} with   *)
(* it, or throws TypeAssertionError with the message `Type mismatch`,      *)
(* followed when errors were collected by an empty line and one            *)
(* `- <error>` line per error.                                             *)
C17_PlainAsResult ==
  PlainAs =>
    /\ (outcome.ok /\ ~call.opts.throws) =>
         outcome.ret.kind = "result" /\ outcome.ret.value = root /\ outcome.ret.errors.k = "undefined"
    /\ (outcome.ok /\ call.opts.throws) => outcome.ret.kind = "value" /\ outcome.ret.value = root
    /\ (~outcome.ok /\ ~call.opts.throws /\ ~call.opts.errors) =>
         outcome.ret.kind = "result" /\ outcome.ret.value = Undef /\ outcome.ret.errors.k = "true"
    /\ (~outcome.ok /\ ~call.opts.throws /\ call.opts.errors) =>
         /\ outcome.ret.kind = "result" /\ outcome.ret.value = Undef
         /\ outcome.ret.errors.k = "list" /\ outcome.ret.errors.list = errors
    /\ (~outcome.ok /\ call.opts.throws) =>
         /\ outcome.ret.kind = "TypeAssertionError"
         /\ outcome.ret.message =
              (IF call.opts.errors /\ errors # <<>>
               THEN "Type mismatch" \o "\n" \o Itemized(errors) ELSE "Type mismatch")
    /\ (call.validator = V_isString /\ call.input = Num(42) /\ call.opts.throws /\ call.opts.errors) =>
         outcome.ret.message = "Type mismatch\n\n- .: Expected a string (got 42)"
    /\ (call.validator = V_isString /\ call.input = Num(42) /\ ~call.opts.throws /\ call.opts.errors) =>
         outcome.ret.errors.list = <<".: Expected a string (got 42)">>

(* as() without coerce threw a mismatch that lists two collected errors    *)
C17_Witness ==
  PlainAs /\ ~outcome.ok /\ call.opts.throws /\ call.opts.errors /\ Len(errors) >= 2

(* as() without coerce accepted an object and returned it *)
C17_WitnessAccepted ==
  PlainAs /\ outcome.ok /\ ~call.opts.throws /\ root.t = "ref"

(* as() without coerce and without error collection rejected the input *)
C17_WitnessTrue ==
  PlainAs /\ ~outcome.ok /\ ~call.opts.throws /\ ~call.opts.errors


(* the values C18 lets isBoolean turn into true and into false *)
TrueSpellings == {Str("true"), Str("True"), Str("1"), Num(1)}
FalseSpellings == {Str("false"), Str("False"), Str("0"), Num(0)}
(* isBoolean() was called on a value that is no boolean: through as(),     *)
(* which gives it a slot to coerce, or directly without a coercion list    *)
BooleanCall ==
  /\ call.validator = V_isBoolean /\ root.t # "bool" /\ ~outcome.exc
  /\ \/ pc = "returned" /\ call.how = "as"
     \/ pc = "called" /\ ~call.opts.coerce
ExpectedABoolean ==
  IF call.opts.errors
  THEN <<".: Expected a boolean (got " \o getPrintable(heap0, root) \o ")">> ELSE <<>>

(* C18: isBoolean accepts a value that is no boolean only in coercion mode *)
(* and only when it is one of "true", "True", "1", 1, proposing true, or   *)
(* "false", "False", "0", 0, proposing false; any other such value fails   *)
(* with `Expected a boolean` and proposes nothing, and without coercion    *)
(* mode every such value fails, 0 and 1 included.                          *)
C18_BooleanCoercions ==
  BooleanCall =>
    /\ (call.opts.coerce /\ root \in TrueSpellings) =>
         /\ outcome.ok /\ errors = <<>> /\ Len(coercions) = 1
         /\ coercions[1].fn.c = "bind" /\ coercions[1].fn.v = Bool(TRUE)
         /\ outcome.ret.value = Bool(TRUE)
    /\ (call.opts.coerce /\ root \in FalseSpellings) =>
         /\ outcome.ok /\ errors = <<>> /\ Len(coercions) = 1
         /\ coercions[1].fn.c = "bind" /\ coercions[1].fn.v = Bool(FALSE)
         /\ outcome.ret.value = Bool(FALSE)
    /\ (~call.opts.coerce \/ root \notin (TrueSpellings \cup FalseSpellings)) =>
         ~outcome.ok /\ coercions = <<>> /\ errors = ExpectedABoolean
    /\ (call.input = Str("foo") /\ call.opts.errors) =>
         errors = <<".: Expected a boolean (got \"foo\")">>
    /\ (call.input = Num(1) /\ call.opts.errors /\ ~call.opts.coerce) =>
         errors = <<".: Expected a boolean (got 1)">>

(* as() with coerce turned "False" into false *)
C18_Witness ==
  BooleanCall /\ call.opts.coerce /\ call.input = Str("False") /\ outcome.ok

(* isBoolean rejected 0 without coercion mode *)
C18_WitnessPlain ==
  BooleanCall /\ ~call.opts.coerce /\ call.input = Num(0) /\ ~outcome.ok

(* isBoolean in coercion mode rejected a value outside the table *)
C18_WitnessOther ==
  BooleanCall /\ call.opts.coerce /\ call.input = Str("42") /\ ~outcome.ok


(* as() with coerce ran isDate() on a number, or on a string that is the   *)
(* text of a number                                                        *)
TimestampCall ==
  /\ pc = "returned" /\ call.how = "as" /\ call.opts.coerce /\ ~outcome.exc
  /\ call.validator = V_isDate /\ TimestampOf(root) # Undef
Timestamp == TimestampOf(root)
UnsafeTimestampError ==
  IF call.opts.errors
  THEN <<".: Received a timestamp that can't be safely represented by the runtime ("
           \o TemplateText(heap0, root) \o ")">>
  ELSE <<>>
ProposesDate(ms) ==
  /\ outcome.ok /\ errors = <<>> /\ Len(coercions) = 1
  /\ coercions[1].fn.c = "bind" /\ coercions[1].fn.v = NewDate(ms)

(* C19: isDate in coercion mode, given a timestamp t in seconds as a       *)
(* number or as the text of one, proposes new Date(t * 1000) only when t   *)
(* and t * 1000 are both safe integers; when one of them is not, it fails  *)
(* with `Received a timestamp that can't be safely represented by the      *)
(* runtime` and proposes nothing.                                          *)
C19_TimestampGuardedOnBoth ==
  TimestampCall =>
    IF isSafeInteger(Timestamp) /\ isSafeInteger(Times1000(Timestamp))
    THEN ProposesDate(Times1000(Timestamp))
    ELSE ~outcome.ok /\ coercions = <<>> /\ errors = UnsafeTimestampError

(* the part of C19 that the code keeps: a timestamp is turned into a date  *)
(* when it and its thousandfold are safe integers, and rejected with the   *)
(* dedicated error when it has a fractional part that its thousandfold has *)
(* not                                                                     *)
C19_SafeTimestampsBecomeDates ==
  TimestampCall =>
    /\ (isSafeInteger(Timestamp) /\ isSafeInteger(Times1000(Timestamp))) =>
         ProposesDate(Times1000(Timestamp))
    /\ (~isSafeInteger(Timestamp) /\ isSafeInteger(Times1000(Timestamp))) =>
         ~outcome.ok /\ coercions = <<>> /\ errors = UnsafeTimestampError
    /\ (call.input = Str("42.42") /\ call.opts.errors) =>
         errors = <<".: Received a timestamp that can't be safely represented by the runtime (42.42)">>
    /\ call.input = Num(42) => outcome.ret.value = DateOf(42000)


(* a validator called on its own, or through as(), that did not throw *)
Called == pc \in {"called", "returned"} /\ ~outcome.exc
Nil == root.t \in {"undef", "null"}

(* C20: isUnknown() returns false for undefined and for null, and true for *)
(* every other value; undefined and null pass only when it is wrapped in   *)
(* isOptional or isNullable.                                               *)
C20_UnknownForbidsNil ==
  Called =>
    /\ call.validator = V_isUnknown => (outcome.ok <=> ~Nil)
    /\ (call.validator = V_isOptional(V_isUnknown) /\ root = Undef) => outcome.ok
    /\ (call.validator = V_isNullable(V_isUnknown) /\ root = Null) => outcome.ok

(* the part of C20 that the code keeps: isUnknown(), wrapped or not,       *)
(* accepts every value that is neither undefined nor null, and the         *)
(* wrappers accept the value they are for, without errors or coercions     *)
C20_UnknownAcceptsValues ==
  (Called /\ call.validator \in {V_isUnknown, V_isOptional(V_isUnknown), V_isNullable(V_isUnknown)}) =>
    /\ ~Nil => outcome.ok /\ errors = <<>> /\ coercions = <<>>
    /\ (call.validator.v = "isOptional" /\ root = Undef) => outcome.ok
    /\ (call.validator.v = "isNullable" /\ root = Null) => outcome.ok


(* as() with coerce ran cascade(isString(), [isJSON(spec)]) *)
JsonFollowupCall ==
  /\ pc = "returned" /\ call.how = "as" /\ call.opts.coerce /\ ~outcome.exc
  /\ call.validator.v = "cascade" /\ call.validator.spec = V_isString
  /\ \E i \in 1..Len(call.validator.followups) : call.validator.followups[i].v = "isJSON"

(* C21: isJSON(spec) as a followup of cascade with coercion enabled never  *)
(* adds an entry to the coercion list, and when it succeeds the value      *)
(* finally returned for the slot is still the original string.             *)
C21_JsonFollowupNeverCoerces ==
  JsonFollowupCall =>
    /\ coercions = <<>>
    /\ outcome.ok => outcome.ret.value = root

(* the part of C21 that the code keeps: when the parsed text needs no      *)
(* coercion to pass spec, or is no JSON, isJSON proposes nothing and an    *)
(* accepted string is returned as it was                                   *)
C21_JsonFollowupKeepsParsedBooleans ==
  (JsonFollowupCall /\ call.validator.followups = <<V_isJSON(V_isBoolean)>>
     /\ root.t = "str" /\ (~JsonParsable(root) \/ JsonParsed(root).t = "bool")) =>
    /\ coercions = <<>>
    /\ outcome.ok <=> JsonParsable(root)
    /\ outcome.ok => outcome.ret.value = root


(* the validators C22 is about *)
CoercingValidators ==
  {"isBoolean", "isNumber", "isDate", "isArray", "isTuple", "isRecord", "isSet", "isPayload"}
(* the recorded entries that write the slot key of object a *)
EntriesOfSlot(a, key) ==
  { i \in 1..Len(coercions) : coercions[i].fn.tgt = a /\ coercions[i].fn.key = key }
(* as() with coerce ran one of these validators on its own slot, the       *)
(* `value` field of the state object allocated after the input             *)
OwnSlotCall ==
  /\ pc = "returned" /\ call.how = "as" /\ call.opts.coerce /\ ~outcome.exc
  /\ call.validator.v \in CoercingValidators
(* isObject({foo: X}) was called with a coercion list on an object whose   *)
(* only key is foo, so that it returns what X returns for the slot foo     *)
FooSlotCall ==
  /\ pc = "called" /\ call.opts.coerce /\ ~outcome.exc /\ trail = <<>>
  /\ call.validator.v = "isObject" /\ call.validator.specKeys = <<"foo">>
  /\ call.validator.props[1].v \in CoercingValidators
  /\ root.t = "ref" /\ heap0[root.n].k = "object" /\ heap0[root.n].keys = <<"foo">>

(* C22: a validator among isBoolean, isNumber, isDate, isArray, isTuple,   *)
(* isRecord, isSet and isPayload that returns false has appended no        *)
(* coercion entry for its own slot to the list, the split of a delimited   *)
(* string by isArray and isTuple included.                                 *)
C22_FailedValidatorProposesNothing ==
  /\ (OwnSlotCall /\ ~outcome.ok) => EntriesOfSlot(Len(heap0) + 1, Str("value")) = {}
  /\ (FooSlotCall /\ ~outcome.ok) => EntriesOfSlot(root.n, Str("foo")) = {}

(* X is an isArray or isTuple that splits a delimited string *)
FooSplitsText ==
  /\ call.validator.props[1].v \in {"isArray", "isTuple"}
  /\ call.validator.props[1].delimiter # NoDelimiter

(* the part of C22 that the code keeps: the validators that split no       *)
(* delimited string propose nothing for their slot when they fail          *)
C22_FailedLeafProposesNothing ==
  /\ (OwnSlotCall /\ ~outcome.ok) => EntriesOfSlot(Len(heap0) + 1, Str("value")) = {}
  /\ (FooSlotCall /\ ~outcome.ok /\ ~FooSplitsText) => EntriesOfSlot(root.n, Str("foo")) = {}

(* cascade was called without a coercion list and did not throw *)
CascadeCall ==
  /\ pc = "called" /\ ~call.opts.coerce /\ ~outcome.exc /\ call.validator.v = "cascade"
(* one validator run on the input on its own, in the mode of the call *)
Alone(v) ==
  Run(v, root,
      [p |-> NoPath, errorsOn |-> call.opts.errors, coercionsOn |-> FALSE, coercion |-> Unbound],
      [heap |-> heap0, errs |-> <<>>, coes |-> <<>>, log |-> <<>>])
LeadPasses == Alone(call.validator.spec).ok
FollowupsPass ==
  \A i \in 1..Len(call.validator.followups) : Alone(call.validator.followups[i]).ok
RECURSIVE ErrorsOfFollowups(_)
(* the errors of followups 1..n, each run on its own, in their order *)
ErrorsOfFollowups(n) ==
  IF n = 0 THEN <<>>
  ELSE ErrorsOfFollowups(n - 1) \o Alone(call.validator.followups[n]).w.errs
FollowupsRun == Len(SelectSeq(log, LAMBDA ev : ev.e = "followup" /\ ev.lead = call.validator.spec))

(* C23: with an error sink cascade runs every followup even after one has  *)
(* failed, so the sink receives the error of every failing followup; it    *)
(* stops at the first failing followup only without a sink.  In both modes *)
(* it returns true iff the lead and every followup pass.                   *)
C23_CascadeCollectsEveryFollowup ==
  (CascadeCall /\ LeadPasses) =>
    /\ outcome.ok <=> FollowupsPass
    /\ call.opts.errors =>
         /\ errors = ErrorsOfFollowups(Len(call.validator.followups))
         /\ FollowupsRun = Len(call.validator.followups)

(* the part of C23 that the code keeps: cascade returns true iff the lead  *)
(* and every followup pass, and when it fails after the lead passed the    *)
(* sink holds the errors of the first failing followup                     *)
C23_CascadeResult ==
  CascadeCall =>
    /\ outcome.ok <=> (LeadPasses /\ FollowupsPass)
    /\ (LeadPasses /\ ~outcome.ok /\ call.opts.errors) =>
         \E i \in 1..Len(call.validator.followups) :
           /\ ~Alone(call.validator.followups[i]).ok
           /\ \A j \in 1..(i - 1) : Alone(call.validator.followups[j]).ok
           /\ errors = Alone(call.validator.followups[i]).w.errs
           /\ FollowupsRun = i


(* isObject(props, {extra}) was called on an object and did not throw *)
ExtraCall ==
  /\ pc = "called" /\ ~outcome.exc
  /\ call.validator.v = "isObject" /\ call.validator.extraSpec # NoSpec /\ root.t = "ref"
ExtraVisits == SelectSeq(log, LAMBDA ev : ev.e = "extra" /\ ev.obj = root.n)
(* the keys of the input that props does not declare, in their order *)
Undeclared ==
  SelectSeq(ObjectKeys(heap0, root.n),
            LAMBDA key : IndexOf(call.validator.specKeys, key) = 0 /\ key \notin UnsafeNames)
(* the per-key loop meets no unsafe name and every declared key passes *)
DeclaredKeysPass ==
  /\ \A i \in 1..Len(ObjectKeys(heap0, root.n)) : ObjectKeys(heap0, root.n)[i] \notin UnsafeNames
  /\ \A i \in 1..Len(call.validator.specKeys) :
       Run(call.validator.props[i], GetProp(heap0, root.n, Str(call.validator.specKeys[i])),
           [p |-> RootKeyPath(call.validator.specKeys[i]), errorsOn |-> call.opts.errors,
            coercionsOn |-> call.opts.coerce,
            coercion |-> CoercionFnOf(root.n, Str(call.validator.specKeys[i]))],
           [heap |-> heap0, errs |-> <<>>, coes |-> <<>>, log |-> <<>>]).ok
(* the recorded entries that `extra` proposed for a field of the bag *)
BagEntries ==
  { i \in 1..Len(coercions) :
      \E v \in 1..Len(ExtraVisits) : coercions[i].fn.tgt = ExtraVisits[v].bag }
LastInvoked == trail[Len(trail)]

(* C24: isObject(props, {extra}) collects the undeclared keys into a bag   *)
(* that is validated exactly once, after the per-key loop, and in          *)
(* fast-fail mode only if no key failed; a coercion that `extra` proposed  *)
(* for a field of the bag writes, when committed, the new value to the     *)
(* same key of the input object, and its revert restores the original      *)
(* value there.                                                            *)
C24_ExtraBagValidatedOnce ==
  ExtraCall =>
    /\ Len(ExtraVisits) = (IF DeclaredKeysPass \/ call.opts.errors THEN 1 ELSE 0)
    /\ \A v \in 1..Len(ExtraVisits) :
         ExtraVisits[v].keys = Undeclared /\ ExtraVisits[v].valid = DeclaredKeysPass
    /\ (trail # <<>> /\ LastInvoked.i \in BagEntries) =>
         GetProp(heap, root.n, coercions[LastInvoked.i].fn.key) =
           (IF LastInvoked.what = "apply" THEN coercions[LastInvoked.i].fn.v
            ELSE GetProp(heap0, root.n, coercions[LastInvoked.i].fn.key))

(* an entry proposed by `extra` was committed and then reverted *)
C24_Witness ==
  /\ ExtraCall /\ Len(trail) >= 2 /\ LastInvoked.i \in BagEntries
  /\ LastInvoked.what = "returned" /\ trail[Len(trail) - 1].what = "apply"
  /\ trail[Len(trail) - 1].i = LastInvoked.i
  /\ trail[Len(trail) - 1].after # trail[Len(trail) - 1].before

(* in fast-fail mode a declared key failed and `extra` was not run *)
C24_WitnessSkipped ==
  ExtraCall /\ ~call.opts.errors /\ ~DeclaredKeysPass /\ Len(Undeclared) > 0 /\ Len(ExtraVisits) = 0

(* with a sink a declared key failed and `extra` was run on the bag *)
C24_WitnessCollected ==
  ExtraCall /\ call.opts.errors /\ ~DeclaredKeysPass /\ Len(Undeclared) > 0 /\ Len(ExtraVisits) = 1


(* as() with coerce accepted a plain record under isMap(keySpec, isBoolean()) *)
MapOfRecordCall ==
  /\ pc = "returned" /\ call.how = "as" /\ call.opts.coerce /\ ~outcome.exc /\ outcome.ok
  /\ call.validator.v = "isMap" /\ call.validator.spec = V_isBoolean
  /\ root.t = "ref" /\ heap0[root.n].k = "object"
(* the boolean isBoolean() accepts a value as *)
AcceptedBoolean(v) ==
  IF v.t = "bool" THEN v ELSE IF v \in TrueSpellings THEN Bool(TRUE) ELSE Bool(FALSE)
(* one entry per own key of the record: the key, then the accepted value *)
ExpectedEntries ==
  [j \in 1..(2 * Len(heap0[root.n].keys)) |->
     IF j % 2 = 1 THEN Str(heap0[root.n].keys[(j + 1) \div 2])
     ELSE AcceptedBoolean(heap0[root.n].vals[j \div 2])]
ReturnedIsMap == outcome.ret.value.t = "ref" /\ heap[outcome.ret.value.n].k = "map"

(* C25: isMap(keySpec, valueSpec) in coercion mode on a plain record that  *)
(* it accepts: once the recorded coercions are committed in order, the     *)
(* slot holds a new Map with exactly one entry per own key of the record,  *)
(* each carrying that key and the value valueSpec accepted, coerced or     *)
(* not.                                                                    *)
C25_MapFromRecord ==
  MapOfRecordCall =>
    /\ ReturnedIsMap
    /\ outcome.ret.value # root
    /\ heap[outcome.ret.value.n].vals = ExpectedEntries

(* the part of C25 that the code keeps: with a key spec that coerces       *)
(* nothing the Map holds one entry per own key with the accepted value     *)
C25_MapFromRecordWithStringKeys ==
  (MapOfRecordCall /\ call.validator.keySpec = V_isString) =>
    /\ ReturnedIsMap
    /\ outcome.ret.value # root
    /\ heap[outcome.ret.value.n].vals = ExpectedEntries


Unbounds == SelectSeq(log, LAMBDA ev : ev.e = "unbound")
(* validation was started through as() with coerce *)
CoercingAs == pc = "returned" /\ call.how = "as" /\ call.opts.coerce /\ ~outcome.exc

(* C26: when validation is started through as(value, V, {coerce: true})   *)
(* the internal error `Unbound coercion result` is never produced: every   *)
(* validator that proposes a coercion for its slot is given a binder.      *)
C26_AsNeverUnbound ==
  CoercingAs =>
    /\ Unbounds = <<>>
    /\ \A i \in 1..Len(coercions) : coercions[i].fn.tgt # 0

(* as() with coerce accepted an input for which a validator nested in      *)
(* isRecord, isSet, isMap, cascade or isOneOf proposed a coercion          *)
C26_Witness ==
  /\ CoercingAs /\ outcome.ok /\ Len(coercions) >= 2
  /\ call.validator.v \in {"isRecord", "isMap", "cascade", "isOneOf", "isObject"}

(* the error does occur when a validator is called with a coercion list    *)
(* and no binder                                                           *)
C26_WitnessMisuse ==
  pc = "called" /\ call.opts.coerce /\ Unbounds # <<>>


(* a validator called by the user without a coercion list *)
PlainCall == pc = "called" /\ call.how = "direct" /\ ~call.opts.coerce
(* the same call made the other way: with an error sink when the call had  *)
(* none, without one when it had                                           *)
OtherMode ==
  Run(call.validator, root,
      [p |-> NoPath, errorsOn |-> ~call.opts.errors, coercionsOn |-> FALSE, coercion |-> Unbound],
      [heap |-> heap0, errs |-> <<>>, coes |-> <<>>, log |-> <<>>])
Visits(l) == Len(SelectSeq(l, LAMBDA ev : ev.e = "element"))

(* C27: the outcome of a validator does not depend on whether an error     *)
(* sink is present: V(v) and V(v, {errors: []}) both return true or both   *)
(* return false.                                                           *)
C27_SinkIndependentOutcome ==
  PlainCall =>
    Let(OtherMode, LAMBDA other :
      /\ other.exc = outcome.exc
      /\ other.ok = outcome.ok)

(* the same, for the calls in which neither run throws                     *)
C27_SinkIndependentVerdict ==
  PlainCall =>
    Let(OtherMode, LAMBDA other :
      (~other.exc /\ ~outcome.exc) => other.ok = outcome.ok)

(* a collecting call that visited more elements than the fast-failing one  *)
C27_Witness ==
  /\ PlainCall /\ call.opts.errors /\ ~outcome.ok /\ ~outcome.exc
  /\ Let(OtherMode, LAMBDA other : ~other.ok /\ Visits(other.w.log) < Visits(log))


(* a validator called by the user with an error sink, which starts empty   *)
SinkCall == pc = "called" /\ call.how = "direct" /\ call.opts.errors /\ ~outcome.exc
(* an isOneOf without branches, or one holding such a branch               *)
RECURSIVE HasEmptyOneOf(_)
HasEmptyOneOf(V) ==
  /\ V.v = "isOneOf"
  /\ \/ V.specs = <<>>
     \/ \E i \in 1..Len(V.specs) : HasEmptyOneOf(V.specs[i])

(* C28: with an error sink present, a validator returns true iff it        *)
(* appended no error to the sink: every false return has appended at least *)
(* one error and every true return leaves the sink as it was, isOneOf over *)
(* an empty list of branches included.                                     *)
C28_TrueIffNoError ==
  SinkCall => (outcome.ok <=> errors = <<>>)

(* the same for every validator but isOneOf over an empty list of branches *)
C28_TrueIffNoErrorWithBranches ==
  (SinkCall /\ ~HasEmptyOneOf(call.validator)) =>
    /\ outcome.ok <=> errors = <<>>
    /\ \A i \in 1..Len(errors) : errors[i] # UndefinedError

(* isOneOf over no branch returned false and the sink is still empty       *)
C28_WitnessEmptyOneOf ==
  SinkCall /\ call.validator = V_isOneOf(<<>>, FALSE) /\ ~outcome.ok /\ errors = <<>>

(* an isOneOf returned true after a branch that failed with an error       *)
C28_WitnessSwallowed ==
  /\ SinkCall /\ outcome.ok /\ errors = <<>>
  /\ \E k \in OneOfEvents : \E i \in 1..Len(log[k].tried) : log[k].tried[i].errs # <<>>


(* as(value, V, {coerce: true}) succeeded *)
CoercedAs ==
  /\ pc = "returned" /\ call.how = "as" /\ call.opts.coerce
  /\ outcome.ok /\ ~outcome.exc /\ trail = <<>>
(* V(result), called without a coercion list *)
Recheck ==
  Run(call.validator, outcome.ret.value,
      [p |-> NoPath, errorsOn |-> FALSE, coercionsOn |-> FALSE, coercion |-> Unbound],
      [heap |-> heap, errs |-> <<>>, coes |-> <<>>, log |-> <<>>])
RECURSIVE Holds(_, _)
(* the validator is, or holds, a validator of kind v *)
Holds(V, v) ==
  \/ V.v = v
  \/ V.v \in {"isArray", "isSet", "isOptional", "isNullable", "isPayload", "isJSON"} /\ Holds(V.spec, v)
  \/ V.v \in {"isRecord", "isMap"} /\ (Holds(V.spec, v) \/ Holds(V.keySpec, v))
  \/ V.v = "isTuple" /\ \E i \in 1..Len(V.spec) : Holds(V.spec[i], v)
  \/ V.v = "isObject" /\ (Holds(V.extraSpec, v) \/ \E i \in 1..Len(V.props) : Holds(V.props[i], v))
  \/ V.v = "isOneOf" /\ \E i \in 1..Len(V.specs) : Holds(V.specs[i], v)
  \/ V.v = "cascade" /\ (Holds(V.spec, v) \/ \E i \in 1..Len(V.followups) : Holds(V.followups[i], v))
(* the input is an array of [key, value] pairs handed to isRecord or isMap *)
FedPairs ==
  /\ root.t = "ref" /\ heap0[root.n].k = "array"
  /\ Holds(call.validator, "isRecord") \/ Holds(call.validator, "isMap")

(* C29: whenever as(value, V, {coerce: true}) succeeds, the value it       *)
(* returns is accepted by V without coercion, isRecord fed an array of     *)
(* [key, value] pairs and isPayload included.                              *)
C29_CoercedResultIsAccepted ==
  CoercedAs => Let(Recheck, LAMBDA again : again.ok /\ ~again.exc)

(* the same without isPayload, isJSON and without arrays of pairs          *)
C29_CoercedResultIsAcceptedInPlace ==
  (/\ CoercedAs
   /\ ~Holds(call.validator, "isPayload") /\ ~Holds(call.validator, "isJSON")
   /\ ~FedPairs) =>
    Let(Recheck, LAMBDA again : again.ok /\ ~again.exc)

(* isRecord accepted an array of pairs whose value needed coercion and the *)
(* record returned is rejected by it                                       *)
C29_WitnessPairs ==
  /\ CoercedAs /\ call.validator = V_isRecord(V_isNumber, NoSpec) /\ FedPairs
  /\ ~Recheck.ok

(* a value was coerced in place and the result is accepted                 *)
C29_WitnessInPlace ==
  /\ CoercedAs /\ coercions # <<>> /\ ~FedPairs /\ Recheck.ok
  /\ call.validator.v \in {"isObject", "isRecord"}


(* the coercions the lead of the event's cascade proposed, which cascade   *)
(* commits provisionally, and the heap they were proposed on               *)
Provisional(ev) == Lead(ev).w.coes
(* entries i < j of the list write the same slot *)
SameSlot(coes, i, j) ==
  i < j /\ coes[i].fn.tgt = coes[j].fn.tgt /\ coes[i].fn.key = coes[j].fn.key
SharedSlots(coes) ==
  { i \in 1..Len(coes) : \E j \in 1..Len(coes) : SameSlot(coes, i, j) \/ SameSlot(coes, j, i) }

(* C30: cascade undoes its provisional commits even when several of the    *)
(* proposed coercions target the same slot: after the reverts have run, in *)
(* the order cascade runs them, each such slot holds the value it had      *)
(* before the first provisional commit.                                    *)
C30_SharedSlotsRestored ==
  \A k \in CascadeEvents :
    LET ev == log[k] IN
    (ev.st.coercionsOn /\ ev.leadOk /\ ~ev.exc) =>
      Let(Lead(ev), LAMBDA lead :
        \A i \in SharedSlots(lead.w.coes) :
          GetProp(ev.heapOut, lead.w.coes[i].fn.tgt, lead.w.coes[i].fn.key)
            = GetProp(lead.w.heap, lead.w.coes[i].fn.tgt, lead.w.coes[i].fn.key))

(* every slot that one proposed coercion alone targets is restored         *)
C30_SingleSlotsRestored ==
  \A k \in CascadeEvents :
    LET ev == log[k] IN
    (ev.st.coercionsOn /\ ev.leadOk /\ ~ev.exc) =>
      Let(Lead(ev), LAMBDA lead :
        \A i \in (1..Len(lead.w.coes)) \ SharedSlots(lead.w.coes) :
          GetProp(ev.heapOut, lead.w.coes[i].fn.tgt, lead.w.coes[i].fn.key)
            = GetProp(lead.w.heap, lead.w.coes[i].fn.tgt, lead.w.coes[i].fn.key))

(* a cascade whose lead proposed two coercions for one slot returned with  *)
(* that slot holding another value than before                             *)
C30_WitnessShared ==
  \E k \in CascadeEvents :
    LET ev == log[k] IN
    /\ ev.st.coercionsOn /\ ev.leadOk /\ ~ev.exc
    /\ \E i \in SharedSlots(Provisional(ev)) :
         GetProp(ev.heapOut, Provisional(ev)[i].fn.tgt, Provisional(ev)[i].fn.key)
           # GetProp(Lead(ev).w.heap, Provisional(ev)[i].fn.tgt, Provisional(ev)[i].fn.key)

(* a cascade restored a slot that one provisional commit had changed       *)
C30_WitnessSingle ==
  \E k \in CascadeEvents :
    LET ev == log[k] IN
    /\ ev.st.coercionsOn /\ ev.leadOk /\ ~ev.exc
    /\ \E i \in (1..Len(Provisional(ev))) \ SharedSlots(Provisional(ev)) :
         /\ Provisional(ev)[i].fn.v
              # GetProp(Lead(ev).w.heap, Provisional(ev)[i].fn.tgt, Provisional(ev)[i].fn.key)
         /\ Provisional(ev)[i].fn.tgt <= Len(ev.heapIn)

=============================================================================
